---- MODULE Spec2Model ----
(***************************************************************************)
(* Model of the Gerber decoding layer of the PCB repository:               *)
(*   GerberParse.py            GerberParser  (outline files, board extent) *)
(*   GerberSilkscreenParser.py GTO_Parser    (silkscreen files, clusters)  *)
(*                                                                         *)
(* A text line is a sequence of one-character strings.  A length is an     *)
(* integer in units of 1/Scale mm, so that int(d) / 10^n and the factor    *)
(* 25.4 are exact; a centroid is a fraction of such integers in lowest     *)
(* terms.  The source computes in binary floating point: values that the   *)
(* rounding of a float would merge or separate are outside the model.      *)
(***************************************************************************)
EXTENDS Integers, Sequences, FiniteSets, TLC

VARIABLES
    cls,               \* class of the parser object: "GerberParser" or "GTO_Parser"
    readable,          \* whether open(self.filename) succeeds
    lines,             \* the list returned by f.readlines()
    pc,                \* position inside parse() / after it
    line_num,          \* index of the next line of the for loop over lines
    unit,              \* self.unit
    format_x,          \* self.format_x
    format_y,          \* self.format_y
    coordinates,       \* GerberParser.coordinates
    board_dimensions,  \* GerberParser.board_dimensions: <<>> is None, <<d>> is d
    drawing_elements,  \* GTO_Parser.drawing_elements
    text_objects,      \* GTO_Parser.text_objects
    used,              \* local set used of _cluster_elements
    clusters,          \* local list clusters of _cluster_elements (index lists)
    cluster,           \* the open cluster (list of indices, seed first)
    i,                 \* index of the outer loop of _cluster_elements
    j,                 \* index of the inner loop of _cluster_elements
    formed,            \* history: every cluster closed so far, kept or not
    result,            \* what parse() returned: <<>> before it returns
    csv_designators,   \* argument of the last match_with_csv call
    match_result,      \* what match_with_csv returned: <<>> before any call
    decode_call,       \* the last decoding of a digit string outside parse()
    pair,              \* two parser objects whose parse() calls interleave
    earlier,           \* history: the lists of the object at each new parse()
    wf                 \* a run of PCB.py: its files, its position, its results

vars == <<cls, readable, lines, pc, line_num, unit, format_x, format_y,
          coordinates, board_dimensions, drawing_elements, text_objects,
          used, clusters, cluster, i, j, formed, result,
          csv_designators, match_result, decode_call, pair, earlier,
          wf>>

----------------------------------------------------------------------------
(* Bounds of the explored inputs *)

\* longest file of directive and token lines
MaxLines == 3
\* most token lines in a file written for the clusterer
MaxPts == 6
\* longest name list handed to match_with_csv
MaxNames == 2
\* longest file of commands of every shape
MaxShapeLines == 2
\* longest digit string handed to the coordinate conversion
MaxDigits == 3
\* longest file of a parser that runs beside another one, or is parsed again
MaxPairLines == 2
\* most calls of parse() on one parser object
MaxCalls == 3

----------------------------------------------------------------------------
(* Program constants *)

GKO_format_x == 2
GKO_format_y == 2
GTO_format_x == 2
GTO_format_y == 5
CLUSTER_DISTANCE == 5
\* 25.4 mm per inch, times ten
INCH_MM_X10 == 254
\* a cluster is kept when len(cluster) > MIN_KEEP
MIN_KEEP == 2
\* integer digits of a coordinate: the 2 of the 2.5 format of the docstring
INTEGER_DIGITS == 2

\* largest decimal count among the defaults and the directives of the inputs
MaxDecimals == GTO_format_y
\* one millimetre in model units; the extra factor ten makes 25.4 exact
Scale == 10 ^ (MaxDecimals + 1)

----------------------------------------------------------------------------
(* Characters and strings *)

Digits == <<"0", "1", "2", "3", "4", "5", "6", "7", "8", "9">>

\* the class \d of the re module, on the ASCII digits
IsDigit(c) == \E k \in 1..10 : Digits[k] = c

DigitVal(c) == (CHOOSE k \in 1..10 : Digits[k] = c) - 1

Whitespace == {" ", "\n", "\t", "\r"}

RECURSIVE LStrip(_)
LStrip(s) == IF s # <<>> /\ Head(s) \in Whitespace THEN LStrip(Tail(s)) ELSE s

RECURSIVE RStrip(_)
RStrip(s) ==
    IF s # <<>> /\ s[Len(s)] \in Whitespace
    THEN RStrip(SubSeq(s, 1, Len(s) - 1))
    ELSE s

\* str.strip()
Strip(s) == RStrip(LStrip(s))

\* str.startswith(p)
StartsWith(s, p) == Len(s) >= Len(p) /\ SubSeq(s, 1, Len(p)) = p

\* p in s
Contains(s, p) ==
    \E k \in 1..(Len(s) - Len(p) + 1) : SubSeq(s, k, k + Len(p) - 1) = p

\* int(s) of a non-empty digit string
RECURSIVE IntOf(_)
IntOf(s) ==
    IF s = <<>> THEN 0
    ELSE IntOf(SubSeq(s, 1, Len(s) - 1)) * 10 + DigitVal(s[Len(s)])

\* last index of the maximal run of digits of s that starts at p (p - 1 if none)
RECURSIVE DigitRunEnd(_, _)
DigitRunEnd(s, p) ==
    IF p <= Len(s) /\ IsDigit(s[p]) THEN DigitRunEnd(s, p + 1) ELSE p - 1

M_MOIN == <<"%", "M", "O", "I", "N">>
M_MOMM == <<"%", "M", "O", "M", "M">>
M_FSLAX == <<"%", "F", "S", "L", "A", "X">>

\* re.match(r'%FSLAX(\d)(\d)Y(\d)(\d)', line): <<>> when there is no match,
\* otherwise <<int(group(2)), int(group(4))>>
FormatMatch(line) ==
    IF /\ Len(line) >= 11
       /\ SubSeq(line, 1, 6) = M_FSLAX
       /\ IsDigit(line[7]) /\ IsDigit(line[8])
       /\ line[9] = "Y"
       /\ IsDigit(line[10]) /\ IsDigit(line[11])
    THEN <<DigitVal(line[8]), DigitVal(line[11])>>
    ELSE <<>>

\* the pattern X-?(\d+)Y-?(\d+)D(\d+) in place of the pattern of the source:
\* a minus sign is let through before the digits of X and of Y
MatchAt_signed(s, p) ==
    LET xs == IF p + 1 <= Len(s) /\ s[p + 1] = "-" THEN p + 2 ELSE p + 1
        xe == DigitRunEnd(s, xs)
        ys == IF xe + 2 <= Len(s) /\ s[xe + 2] = "-" THEN xe + 3 ELSE xe + 2
        ye == DigitRunEnd(s, ys)
        de == DigitRunEnd(s, ye + 2)
    IN  IF /\ p <= Len(s) /\ s[p] = "X"
           /\ xe >= xs
           /\ xe + 1 <= Len(s) /\ s[xe + 1] = "Y"
           /\ ye >= ys
           /\ ye + 1 <= Len(s) /\ s[ye + 1] = "D"
           /\ de >= ye + 2
        THEN [ok |-> TRUE, x_str |-> SubSeq(s, xs, xe),
              y_str |-> SubSeq(s, ys, ye),
              command |-> SubSeq(s, ye + 2, de), end |-> de]
        ELSE [ok |-> FALSE, x_str |-> <<>>, y_str |-> <<>>,
              command |-> <<>>, end |-> p]

\* one attempt of the pattern X(\d+)Y(\d+)D(\d+) at position p of s; each
\* group is a maximal digit run, since the character that must follow a
\* group is not a digit
MatchAt(s, p) ==
    LET xe == DigitRunEnd(s, p + 1)
        ye == DigitRunEnd(s, xe + 2)
        de == DigitRunEnd(s, ye + 2)
    IN  IF /\ p <= Len(s) /\ s[p] = "X"
           /\ xe >= p + 1
           /\ xe + 1 <= Len(s) /\ s[xe + 1] = "Y"
           /\ ye >= xe + 2
           /\ ye + 1 <= Len(s) /\ s[ye + 1] = "D"
           /\ de >= ye + 2
        THEN [ok |-> TRUE, x_str |-> SubSeq(s, p + 1, xe),
              y_str |-> SubSeq(s, xe + 2, ye),
              command |-> SubSeq(s, ye + 2, de), end |-> de]
        ELSE [ok |-> FALSE, x_str |-> <<>>, y_str |-> <<>>,
              command |-> <<>>, end |-> p]

\* re.search in place of re.findall: the first match from position p on, and
\* no other
FindAll_first(s, p) ==
    LET qs == {q \in p..Len(s) : MatchAt(s, q).ok}
    IN  IF qs = {} THEN <<>>
        ELSE <<MatchAt(s, CHOOSE q \in qs : \A r \in qs : q <= r)>>

\* re.findall(pattern, line) from position p on: the non-overlapping matches,
\* left to right
RECURSIVE FindAll(_, _)
FindAll(s, p) ==
    IF p > Len(s) THEN <<>>
    ELSE LET m == MatchAt(s, p)
         IN  IF m.ok THEN <<m>> \o FindAll(s, m.end + 1)
             ELSE FindAll(s, p + 1)

----------------------------------------------------------------------------
(* Coordinate decoding *)

\* _convert_coordinate with one implicit decimal place too many:
\* int(coord_str) / 10 ** (decimals + 1)
convert_coordinate_shifted(coord_str, decimals) ==
    IF Len(coord_str) = 0 THEN 0
    ELSE IntOf(coord_str) * (10 ^ (MaxDecimals - decimals))

\* _convert_coordinate of both parsers: int(coord_str) / 10 ** decimals,
\* in units of 1/Scale of the file's unit
convert_coordinate(coord_str, decimals) ==
    IF Len(coord_str) = 0 THEN 0
    ELSE IntOf(coord_str) * (10 ^ (MaxDecimals + 1 - decimals))

\* if self.unit == 'INCH': x *= 25.4
to_mm(v, u) == IF u = "INCH" THEN (v \div 10) * INCH_MM_X10 ELSE v

\* cmd_map.get(command, f'D{command}') of GerberParser._extract_coordinates
gko_command(command) ==
    IF command = <<"0", "1">> THEN <<"DRAW">>
    ELSE IF command = <<"0", "2">> THEN <<"MOVE">>
    ELSE IF command = <<"0", "3">> THEN <<"FLASH">>
    ELSE <<"D">> \o command

\* cmd_type of GTO_Parser._parse_drawing_commands
gto_cmd_type(command) ==
    IF command = <<"0", "3">> THEN "flash"
    ELSE IF command = <<"0", "2">> THEN "move"
    ELSE "draw"

GerberCoordinate(m, u, fx, fy) ==
    [x |-> to_mm(convert_coordinate(m.x_str, fx), u),
     y |-> to_mm(convert_coordinate(m.y_str, fy), u),
     command |-> gko_command(m.command)]

DrawingElement(m, u, fx, fy) ==
    [x |-> to_mm(convert_coordinate(m.x_str, fx), u),
     y |-> to_mm(convert_coordinate(m.y_str, fy), u),
     element_type |-> gto_cmd_type(m.command),
     aperture |-> m.command]

\* the tokens of a line are decoded before its directives are applied
in_force_before(before, after) == before

\* self.unit, self.format_x, self.format_y as _extract_coordinates and
\* _parse_drawing_commands read them: the call comes after the assignments
\* of the same iteration
in_force(before, after) == after

\* GerberParser._extract_coordinates(line): the coordinates it appends
extract_coordinates(line, u, fx, fy) ==
    LET ms == FindAll(line, 1)
    IN  [k \in 1..Len(ms) |-> GerberCoordinate(ms[k], u, fx, fy)]

\* GTO_Parser._parse_drawing_commands(line): the elements it appends
parse_drawing_commands(line, u, fx, fy) ==
    LET ms == FindAll(line, 1)
    IN  [k \in 1..Len(ms) |-> DrawingElement(ms[k], u, fx, fy)]

\* gko_unit with a unit that does not persist: a line without a unit
\* directive falls back to the default
gko_unit_reset(line, u) ==
    IF StartsWith(line, M_MOIN) THEN "INCH"
    ELSE IF StartsWith(line, M_MOMM) THEN "MM"
    ELSE "INCH"

\* the unit after a line, GerberParser.parse
gko_unit(line, u) ==
    IF StartsWith(line, M_MOIN) THEN "INCH"
    ELSE IF StartsWith(line, M_MOMM) THEN "MM"
    ELSE u

\* the unit after a line, GTO_Parser.parse
gto_unit(line, u) ==
    IF Contains(line, M_MOIN) THEN "INCH"
    ELSE IF Contains(line, M_MOMM) THEN "MM"
    ELSE u

\* <<format_x, format_y>> after a line, both parsers
line_format(line, fx, fy) ==
    IF StartsWith(line, M_FSLAX) /\ FormatMatch(line) # <<>>
    THEN FormatMatch(line)
    ELSE <<fx, fy>>

----------------------------------------------------------------------------
(* Board extent *)

SeqMin(vals) == CHOOSE v \in {vals[k] : k \in 1..Len(vals)} :
                    \A k \in 1..Len(vals) : v <= vals[k]

SeqMax(vals) == CHOOSE v \in {vals[k] : k \in 1..Len(vals)} :
                    \A k \in 1..Len(vals) : v >= vals[k]

\* _calculate_dimensions that leaves the MOVE points out of the extent (all
\* points when there is no other)
BoardDimensions_drawn(coords) ==
    LET drawn == SelectSeq(coords, LAMBDA c : c.command # <<"MOVE">>)
        pts == IF drawn = <<>> THEN coords ELSE drawn
        x_values == [k \in 1..Len(pts) |-> pts[k].x]
        y_values == [k \in 1..Len(pts) |-> pts[k].y]
    IN  [min_x |-> SeqMin(x_values), max_x |-> SeqMax(x_values),
         min_y |-> SeqMin(y_values), max_y |-> SeqMax(y_values),
         width |-> SeqMax(x_values) - SeqMin(x_values),
         height |-> SeqMax(y_values) - SeqMin(y_values)]

\* GerberParser._calculate_dimensions on a non-empty list
BoardDimensions(coords) ==
    LET x_values == [k \in 1..Len(coords) |-> coords[k].x]
        y_values == [k \in 1..Len(coords) |-> coords[k].y]
    IN  [min_x |-> SeqMin(x_values), max_x |-> SeqMax(x_values),
         min_y |-> SeqMin(y_values), max_y |-> SeqMax(y_values),
         width |-> SeqMax(x_values) - SeqMin(x_values),
         height |-> SeqMax(y_values) - SeqMin(y_values)]

\* an extent is computed only from two points on
has_coordinates_two(coords) == Len(coords) > 1

\* if self.coordinates: of GerberParser.parse
has_coordinates(coords) == coords # <<>>

\* the except branch reports success
except_return_true == TRUE

\* return False of the except branch of parse, both parsers
except_return == FALSE

----------------------------------------------------------------------------
(* Arithmetic of the clusterer *)

Abs(v) == IF v < 0 THEN -v ELSE v

RECURSIVE GCD(_, _)
GCD(a, b) == IF b = 0 THEN a ELSE GCD(b, a % b)

\* the quotient num / den (den > 0) as a fraction in lowest terms
Frac(num, den) ==
    LET g == GCD(num, den)
    IN  [n |-> num \div g, d |-> den \div g]

FracLess(a, b) == a.n * b.d < b.n * a.d

\* radix of the three-limb squares below
Limb == 10 ^ 4

\* the sign of dx^2 + dy^2 - (thr * Scale)^2 for dx, dy >= 0, with the
\* squares held in limbs of radix Limb so that no intermediate value leaves
\* the 32-bit integers
SumSqCmp(dx, dy, thr) ==
    LET t  == thr * Scale
        ta == t \div Limb
        ax == dx \div Limb
        bx == dx % Limb
        ay == dy \div Limb
        by == dy % Limb
        l0 == bx * bx + by * by
        l1 == 2 * ax * bx + 2 * ay * by + (l0 \div Limb)
        l2 == ax * ax + ay * ay + (l1 \div Limb)
    IN  IF dx > t \/ dy > t THEN 1
        ELSE IF l2 < ta * ta THEN -1
        ELSE IF l2 > ta * ta THEN 1
        ELSE IF l1 % Limb = 0 /\ l0 % Limb = 0 THEN 0
        ELSE 1

\* dist_lt with <= in place of <
dist_lt_le(cluster_elem, elem, other_elem) ==
    SumSqCmp(Abs(elem.x - other_elem.x), Abs(elem.y - other_elem.y),
             CLUSTER_DISTANCE) <= 0

\* dist_lt that reads the command: a point reached by a move is never near
dist_lt_pen(cluster_elem, elem, other_elem) ==
    /\ other_elem.element_type # "move"
    /\ SumSqCmp(Abs(elem.x - other_elem.x), Abs(elem.y - other_elem.y),
                CLUSTER_DISTANCE) < 0

\* dist_lt with the y term of the distance left out
dist_lt_x_only(cluster_elem, elem, other_elem) ==
    SumSqCmp(Abs(elem.x - other_elem.x), 0, CLUSTER_DISTANCE) < 0

\* line 200-201: dist = ((elem.x - other_elem.x)**2 + (elem.y - other_elem.y)**2)**0.5,
\* dist < CLUSTER_DISTANCE.  The loop variable cluster_elem is not read.
dist_lt(cluster_elem, elem, other_elem) ==
    SumSqCmp(Abs(elem.x - other_elem.x), Abs(elem.y - other_elem.y),
             CLUSTER_DISTANCE) < 0

\* lines 199-204: for cluster_elem in cluster: ... break
absorbs(elems, cl, ii, jj) ==
    \E m \in 1..Len(cl) : dist_lt(elems[cl[m]], elems[ii], elems[jj])

\* is_used with the membership test lost
is_used_never(idx, usedset) == FALSE

\* lines 186 and 195: if i in used / if j in used
is_used(idx, usedset) == idx \in usedset

\* keeps with the limit one too low
keeps_pairs(cl) == Len(cl) > MIN_KEEP - 1

\* line 206: if len(cluster) > 2
keeps(cl) == Len(cl) > MIN_KEEP

\* next_j of a scan that starts over after every absorption
next_j_restart(ii, jj, absorbed) == IF absorbed THEN ii + 1 ELSE jj + 1

\* index of the inner loop after the test of jj
next_j(ii, jj, absorbed) == jj + 1

RECURSIVE SumOver(_, _)
SumOver(vals, k) == IF k = 0 THEN 0 ELSE vals[k] + SumOver(vals, k - 1)

\* f"{v:.1f}" of a fraction, as a number of tenths of a millimetre: nearest
\* tenth, an exact tie going to the even tenth
Tenths(f) ==
    LET den == f.d * (Scale \div 10)
        q   == f.n \div den
        r   == f.n % den
    IN  IF 2 * r < den THEN q
        ELSE IF 2 * r > den THEN q + 1
        ELSE IF q % 2 = 0 THEN q ELSE q + 1

\* f"Pos({x_avg:.1f},{y_avg:.1f})"
Placeholder(x_avg, y_avg) == <<"Pos", Tenths(x_avg), Tenths(y_avg)>>

\* a TextObject at the centre of the bounding box of the cluster, not at
\* the mean of its members
TextObject_bbox(elems, cl) ==
    LET x_coords == [k \in 1..Len(cl) |-> elems[cl[k]].x]
        y_coords == [k \in 1..Len(cl) |-> elems[cl[k]].y]
        x_mid == Frac(SeqMax(x_coords) + SeqMin(x_coords), 2)
        y_mid == Frac(SeqMax(y_coords) + SeqMin(y_coords), 2)
        width == SeqMax(x_coords) - SeqMin(x_coords)
        height == SeqMax(y_coords) - SeqMin(y_coords)
    IN  [text |-> Placeholder(x_mid, y_mid), x |-> x_mid, y |-> y_mid,
         size |-> IF width >= height THEN width ELSE height,
         rotation |-> 0, mirrored |-> FALSE]

\* lines 211-228: the TextObject of one cluster (a list of indices)
TextObject(elems, cl) ==
    LET x_coords == [k \in 1..Len(cl) |-> elems[cl[k]].x]
        y_coords == [k \in 1..Len(cl) |-> elems[cl[k]].y]
        x_avg == Frac(SumOver(x_coords, Len(cl)), Len(cl))
        y_avg == Frac(SumOver(y_coords, Len(cl)), Len(cl))
        width == SeqMax(x_coords) - SeqMin(x_coords)
        height == SeqMax(y_coords) - SeqMin(y_coords)
    IN  [text |-> Placeholder(x_avg, y_avg), x |-> x_avg, y |-> y_avg,
         size |-> IF width >= height THEN width ELSE height,
         rotation |-> 0, mirrored |-> FALSE]

\* the key (t.x, t.y) of line 232, compared as tuples
KeyLess(t, u) == FracLess(t.x, u.x) \/ (t.x = u.x /\ FracLess(t.y, u.y))

\* t put into the sorted list s behind every element whose key is not greater
InsertSorted(s, t) ==
    LET before == {k \in 1..Len(s) : ~KeyLess(t, s[k])}
        cut == IF before = {} THEN 0
               ELSE CHOOSE k \in before : \A m \in before : m <= k
    IN  SubSeq(s, 1, cut) \o <<t>> \o SubSeq(s, cut + 1, Len(s))

RECURSIVE SortFrom(_, _, _)
SortFrom(objs, k, acc) ==
    IF k > Len(objs) THEN acc
    ELSE SortFrom(objs, k + 1, InsertSorted(acc, objs[k]))

\* sort_text_objects with the sort left out
sort_text_objects_none(objs) == objs

\* line 232: self.text_objects.sort(key=lambda t: (t.x, t.y)), a stable sort
sort_text_objects(objs) == SortFrom(objs, 1, <<>>)

\* |obj - entry| in the 1-norm, in units of 1 / (Scale * obj.x.d * obj.y.d) mm
CsvDistance(obj, entry) ==
    Abs(obj.x.n * obj.y.d - entry[2] * Scale * obj.x.d * obj.y.d)
        + Abs(obj.y.n * obj.x.d - entry[3] * Scale * obj.x.d * obj.y.d)

\* match_texts giving a label the coordinates of its entry with the name
match_texts_placed(objs, names) ==
    [k \in 1..Len(objs) |->
        IF k <= Len(names)
        THEN [objs[k] EXCEPT !.text = <<names[k][1]>>,
                             !.x = Frac(names[k][2] * Scale, 1),
                             !.y = Frac(names[k][3] * Scale, 1)]
        ELSE objs[k]]

\* match_texts giving every label the name of the nearest entry
match_texts_nearest(objs, names) ==
    [k \in 1..Len(objs) |->
        LET best == CHOOSE e \in 1..Len(names) :
                        \A f \in 1..Len(names) :
                            \/ CsvDistance(objs[k], names[e])
                                   < CsvDistance(objs[k], names[f])
                            \/ /\ CsvDistance(objs[k], names[e])
                                      = CsvDistance(objs[k], names[f])
                               /\ e <= f
        IN  [objs[k] EXCEPT !.text = <<names[best][1]>>]]

\* lines 252-259 of match_with_csv: the labels after the loop
match_texts(objs, names) ==
    [k \in 1..Len(objs) |->
        IF k <= Len(names) THEN [objs[k] EXCEPT !.text = <<names[k][1]>>]
        ELSE objs[k]]

----------------------------------------------------------------------------
(* Inputs *)

\* ' \n'
L_BLANK == <<" ", "\n">>
\* '%MOMM*%\n'
L_MOMM == <<"%", "M", "O", "M", "M", "*", "%", "\n">>
\* '%MOIN*%'
L_MOIN == <<"%", "M", "O", "I", "N", "*", "%">>
\* '%FSLAX23Y24*%'
L_FS_OK == <<"%", "F", "S", "L", "A", "X", "2", "3", "Y", "2", "4", "*", "%">>
\* '%FSLAX2Y24*%'
L_FS_BAD == <<"%", "F", "S", "L", "A", "X", "2", "Y", "2", "4", "*", "%">>
\* '%FSLAXY%MOMM'
L_FS_BAD_MM == <<"%", "F", "S", "L", "A", "X", "Y", "%", "M", "O", "M", "M">>
\* 'X12Y340D01\n'
L_TOK == <<"X", "1", "2", "Y", "3", "4", "0", "D", "0", "1", "\n">>
\* 'X5Y60D02X70Y8D03'
L_TOK2 == <<"X", "5", "Y", "6", "0", "D", "0", "2",
            "X", "7", "0", "Y", "8", "D", "0", "3">>
\* '%FSLAX20Y20*%'
L_FS_00 == <<"%", "F", "S", "L", "A", "X", "2", "0", "Y", "2", "0", "*", "%">>
\* 'X0Y0D02': the point (0, 0) under %MOMM and %FSLAX20Y20
L_A == <<"X", "0", "Y", "0", "D", "0", "2">>
\* 'X2Y4D01': the point (2, 4), nearer than 5 mm to (0, 0) and to (0, 8)
L_B == <<"X", "2", "Y", "4", "D", "0", "1">>
\* 'X0Y8D01': the point (0, 8), 8 mm from (0, 0)
L_C == <<"X", "0", "Y", "8", "D", "0", "1">>

\* 'X1Y2D1*': one digit after D
L_D1 == <<"X", "1", "Y", "2", "D", "1", "*">>
\* 'X3Y4D011*': three digits after D
L_D3 == <<"X", "3", "Y", "4", "D", "0", "1", "1", "*">>
\* 'X5Y6D10*': a code other than 01, 02, 03
L_D10 == <<"X", "5", "Y", "6", "D", "1", "0", "*">>
\* 'Y5D01*X5D02*X-1Y2D01*X1Y-2D03*': no X, no Y, signed X, signed Y
L_SHAPES == <<"Y", "5", "D", "0", "1", "*", "X", "5", "D", "0", "2", "*",
              "X", "-", "1", "Y", "2", "D", "0", "1", "*", "X", "1", "Y",
              "-", "2", "D", "0", "3", "*">>
\* 'Y5D01*X7Y8D02*X-1Y2D01*': a token between two such commands
L_MIXED == <<"Y", "5", "D", "0", "1", "*", "X", "7", "Y", "8", "D", "0",
             "2", "*", "X", "-", "1", "Y", "2", "D", "0", "1", "*">>

\* '%FSLAX22Y22*%'
L_FS_22 == <<"%", "F", "S", "L", "A", "X", "2", "2", "Y", "2", "2", "*", "%">>
\* 'X100Y100D02': the point (1.00, 1.00) under %MOMM and %FSLAX22Y22
L_E1 == <<"X", "1", "0", "0", "Y", "1", "0", "0", "D", "0", "2">>
\* 'X150Y120D01': the point (1.50, 1.20)
L_E2 == <<"X", "1", "5", "0", "Y", "1", "2", "0", "D", "0", "1">>
\* 'X200Y110D01': the point (2.00, 1.10)
L_E3 == <<"X", "2", "0", "0", "Y", "1", "1", "0", "D", "0", "1">>
\* 'X100Y100D03', 'X150Y120D10', 'X200Y110D02': the same three points with
\* other command codes
L_E1_FLASH == <<"X", "1", "0", "0", "Y", "1", "0", "0", "D", "0", "3">>
L_E2_OTHER == <<"X", "1", "5", "0", "Y", "1", "2", "0", "D", "1", "0">>
L_E3_MOVE == <<"X", "2", "0", "0", "Y", "1", "1", "0", "D", "0", "2">>
\* 'X300Y400D01': under %MOMM and %FSLAX22Y22 the point (3.00, 4.00), at
\* 5.0 mm from (0, 0)
L_AT == <<"X", "3", "0", "0", "Y", "4", "0", "0", "D", "0", "1">>
\* 'X300Y399D01': the point (3.00, 3.99), nearer than 5.0 mm to (0, 0)
L_BELOW == <<"X", "3", "0", "0", "Y", "3", "9", "9", "D", "0", "1">>
\* 'X300Y401D01': the point (3.00, 4.01), farther than 5.0 mm from (0, 0)
L_ABOVE == <<"X", "3", "0", "0", "Y", "4", "0", "1", "D", "0", "1">>
\* '%MOMM*%X12Y340D01': a unit directive and a token on one line
L_MM_TOK == <<"%", "M", "O", "M", "M", "*", "%", "X", "1", "2", "Y", "3",
              "4", "0", "D", "0", "1">>
\* '%FSLAX23Y24*%X12Y340D01': a format directive and a token on one line
L_FS_TOK == <<"%", "F", "S", "L", "A", "X", "2", "3", "Y", "2", "4", "*",
              "%", "X", "1", "2", "Y", "3", "4", "0", "D", "0", "1">>

DirectiveLines == {L_BLANK, L_MOMM, L_MOIN, L_FS_OK, L_FS_BAD, L_FS_BAD_MM,
                   L_TOK, L_TOK2}

PointLines == {L_A, L_B, L_C}

SeqsUpTo(S, n) == UNION {[1..k -> S] : k \in 0..n}

\* files of directives and tokens in any order
DirectiveFiles == SeqsUpTo(DirectiveLines, MaxLines)

\* silkscreen files: millimetres, no decimals, then one point per line
PointFiles == {<<L_MOMM, L_FS_00>> \o body : body \in SeqsUpTo(PointLines, MaxPts)}

ShapeLines == {L_BLANK, L_MOMM, L_TOK2, L_D1, L_D3, L_D10, L_SHAPES, L_MIXED,
               L_MM_TOK, L_FS_TOK}

\* files of commands of every shape
ShapeFiles == SeqsUpTo(ShapeLines, MaxShapeLines)

\* silkscreen files of one label of three points with two decimals
ExampleFiles == {<<L_MOMM, L_FS_22, L_E1, L_E2, L_E3>>,
                 <<L_MOMM, L_FS_22, L_E1_FLASH, L_E2_OTHER, L_E3_MOVE>>}

\* silkscreen files with points at, below and above the cluster distance
\* from the first point
ThresholdFiles == {<<L_MOMM, L_FS_22, L_A, L_AT, L_BELOW, L_ABOVE>>,
                   <<L_MOMM, L_FS_22, L_A, L_BELOW, L_AT, L_BELOW>>}

\* 'X1Y2D02X2Y4D01X3Y1D03': three tokens, within a millimetre of each other
\* under every unit and format of these files
L_TOK3 == <<"X", "1", "Y", "2", "D", "0", "2", "X", "2", "Y", "4", "D",
           "0", "1", "X", "3", "Y", "1", "D", "0", "3">>

PairLines == {L_MOMM, L_FS_OK, L_TOK3}

PairFiles == SeqsUpTo(PairLines, MaxPairLines)

FilesOf(c) == IF c = "GTO_Parser"
              THEN DirectiveFiles \cup PointFiles \cup ShapeFiles
                       \cup ExampleFiles \cup ThresholdFiles \cup PairFiles
              ELSE DirectiveFiles \cup ShapeFiles \cup PairFiles

\* (name, x, y) tuples of the placement data, x and y in millimetres
CsvEntries == {<<"R1", 0, 8>>, <<"C7", 0, 0>>}

NameLists == SeqsUpTo(CsvEntries, MaxNames)

----------------------------------------------------------------------------
(* The parser object after __init__ *)

ParserInit ==
    /\ cls \in {"GerberParser", "GTO_Parser"}
    /\ readable \in BOOLEAN
    /\ lines \in IF readable THEN FilesOf(cls) ELSE {<<>>}
    /\ pc = "open"
    /\ line_num = 1
    /\ unit = "INCH"
    /\ format_x = IF cls = "GerberParser" THEN GKO_format_x ELSE GTO_format_x
    /\ format_y = IF cls = "GerberParser" THEN GKO_format_y ELSE GTO_format_y
    /\ coordinates = <<>>
    /\ board_dimensions = <<>>
    /\ drawing_elements = <<>>
    /\ text_objects = <<>>
    /\ used = {}
    /\ clusters = <<>>
    /\ cluster = <<>>
    /\ i = 0
    /\ j = 0
    /\ formed = <<>>
    /\ result = <<>>
    /\ csv_designators = <<>>
    /\ match_result = <<>>
    /\ decode_call = <<>>
    /\ earlier = <<>>

Init == ParserInit /\ pair = <<>> /\ wf = <<>>

----------------------------------------------------------------------------
(* parse() of both classes, one step per loop iteration *)

\* open(...) and f.readlines() succeed
OpenFile ==
    /\ pc = "open" /\ readable
    /\ pc' = "lines"
    /\ UNCHANGED <<wf, earlier, pair, decode_call, cls, readable, lines, line_num, unit, format_x, format_y,
                   coordinates, board_dimensions, drawing_elements,
                   text_objects, used, clusters, cluster, i, j, formed,
                   result, csv_designators, match_result>>

\* open(...) raises: the except branch prints and returns False
OpenFails ==
    /\ pc = "open" /\ ~readable
    /\ result' = <<except_return>>
    /\ pc' = "done"
    /\ UNCHANGED <<wf, earlier, pair, decode_call, cls, readable, lines, line_num, unit, format_x, format_y,
                   coordinates, board_dimensions, drawing_elements,
                   text_objects, used, clusters, cluster, i, j, formed,
                   csv_designators, match_result>>

\* one iteration of the loop of GerberParser.parse
GerberParseLine ==
    /\ pc = "lines" /\ cls = "GerberParser" /\ line_num <= Len(lines)
    /\ LET line == Strip(lines[line_num])
           u == gko_unit(line, unit)
           f == line_format(line, format_x, format_y)
       IN  IF line = <<>>
           THEN UNCHANGED <<unit, format_x, format_y, coordinates>>
           ELSE /\ unit' = u
                /\ format_x' = f[1]
                /\ format_y' = f[2]
                /\ coordinates' =
                       coordinates \o
                           extract_coordinates(line, in_force(unit, u),
                                               in_force(format_x, f[1]),
                                               in_force(format_y, f[2]))
    /\ line_num' = line_num + 1
    /\ UNCHANGED <<wf, earlier, pair, decode_call, cls, readable, lines, pc, board_dimensions,
                   drawing_elements, text_objects, used, clusters, cluster,
                   i, j, formed, result, csv_designators, match_result>>

\* the end of GerberParser.parse: _calculate_dimensions and the return value
GerberFinish ==
    /\ pc = "lines" /\ cls = "GerberParser" /\ line_num > Len(lines)
    /\ IF has_coordinates(coordinates)
       THEN /\ board_dimensions' = <<BoardDimensions(coordinates)>>
            /\ result' = <<TRUE>>
       ELSE /\ UNCHANGED board_dimensions
            /\ result' = <<FALSE>>
    /\ pc' = "done"
    /\ UNCHANGED <<wf, earlier, pair, decode_call, cls, readable, lines, line_num, unit, format_x, format_y,
                   coordinates, drawing_elements, text_objects, used,
                   clusters, cluster, i, j, formed, csv_designators,
                   match_result>>

\* one iteration of the loop of GTO_Parser.parse
GTOParseLine ==
    /\ pc = "lines" /\ cls = "GTO_Parser" /\ line_num <= Len(lines)
    /\ LET line == Strip(lines[line_num])
           u == gto_unit(line, unit)
           f == line_format(line, format_x, format_y)
       IN  IF line = <<>>
           THEN UNCHANGED <<unit, format_x, format_y, drawing_elements>>
           ELSE /\ unit' = u
                /\ format_x' = f[1]
                /\ format_y' = f[2]
                /\ drawing_elements' =
                       drawing_elements \o
                           parse_drawing_commands(line, in_force(unit, u),
                                                  in_force(format_x, f[1]),
                                                  in_force(format_y, f[2]))
    /\ line_num' = line_num + 1
    /\ UNCHANGED <<wf, earlier, pair, decode_call, cls, readable, lines, pc, coordinates, board_dimensions,
                   text_objects, used, clusters, cluster, i, j, formed,
                   result, csv_designators, match_result>>

\* _cluster_elements is entered with no element: it returns at once, and
\* parse returns len(self.text_objects) > 0
ClusterNothing ==
    /\ pc = "lines" /\ cls = "GTO_Parser" /\ line_num > Len(lines)
    /\ drawing_elements = <<>>
    /\ result' = <<Len(text_objects) > 0>>
    /\ pc' = "done"
    /\ UNCHANGED <<wf, earlier, pair, decode_call, cls, readable, lines, line_num, unit, format_x, format_y,
                   coordinates, board_dimensions, drawing_elements,
                   text_objects, used, clusters, cluster, i, j, formed,
                   csv_designators, match_result>>

\* _cluster_elements is entered: used = set(), clusters = []
ClusterBegin ==
    /\ pc = "lines" /\ cls = "GTO_Parser" /\ line_num > Len(lines)
    /\ drawing_elements # <<>>
    /\ used' = {}
    /\ clusters' = <<>>
    /\ i' = 1
    /\ pc' = "outer"
    /\ UNCHANGED <<wf, earlier, pair, decode_call, cls, readable, lines, line_num, unit, format_x, format_y,
                   coordinates, board_dimensions, drawing_elements,
                   text_objects, cluster, j, formed, result,
                   csv_designators, match_result>>

\* outer loop, i already in a cluster: continue
OuterSkip ==
    /\ pc = "outer" /\ i <= Len(drawing_elements)
    /\ is_used(i, used)
    /\ i' = i + 1
    /\ UNCHANGED <<wf, earlier, pair, decode_call, cls, readable, lines, pc, line_num, unit, format_x,
                   format_y, coordinates, board_dimensions, drawing_elements,
                   text_objects, used, clusters, cluster, j, formed, result,
                   csv_designators, match_result>>

\* outer loop, i in no cluster: cluster = [elem], used.add(i)
OuterSeed ==
    /\ pc = "outer" /\ i <= Len(drawing_elements)
    /\ ~is_used(i, used)
    /\ cluster' = <<i>>
    /\ used' = used \cup {i}
    /\ j' = i + 1
    /\ pc' = "inner"
    /\ UNCHANGED <<wf, earlier, pair, decode_call, cls, readable, lines, line_num, unit, format_x, format_y,
                   coordinates, board_dimensions, drawing_elements,
                   text_objects, clusters, i, formed, result,
                   csv_designators, match_result>>

\* inner loop, j already in a cluster: continue
InnerSkip ==
    /\ pc = "inner" /\ j <= Len(drawing_elements)
    /\ is_used(j, used)
    /\ j' = j + 1
    /\ UNCHANGED <<wf, earlier, pair, decode_call, cls, readable, lines, pc, line_num, unit, format_x,
                   format_y, coordinates, board_dimensions, drawing_elements,
                   text_objects, used, clusters, cluster, i, formed, result,
                   csv_designators, match_result>>

\* inner loop, j in no cluster: the distance test of lines 199-204
InnerTest ==
    /\ pc = "inner" /\ j <= Len(drawing_elements)
    /\ ~is_used(j, used)
    /\ LET absorbed == absorbs(drawing_elements, cluster, i, j)
       IN  /\ IF absorbed
              THEN /\ cluster' = Append(cluster, j)
                   /\ used' = used \cup {j}
              ELSE UNCHANGED <<cluster, used>>
           /\ j' = next_j(i, j, absorbed)
    /\ UNCHANGED <<wf, earlier, pair, decode_call, cls, readable, lines, pc, line_num, unit, format_x,
                   format_y, coordinates, board_dimensions, drawing_elements,
                   text_objects, clusters, i, formed, result,
                   csv_designators, match_result>>

\* the inner loop is over: the cluster is closed and kept or dropped
CloseCluster ==
    /\ pc = "inner" /\ j > Len(drawing_elements)
    /\ clusters' = IF keeps(cluster) THEN Append(clusters, cluster) ELSE clusters
    /\ formed' = Append(formed, cluster)
    /\ i' = i + 1
    /\ pc' = "outer"
    /\ UNCHANGED <<wf, earlier, pair, decode_call, cls, readable, lines, line_num, unit, format_x, format_y,
                   coordinates, board_dimensions, drawing_elements,
                   text_objects, used, cluster, j, result, csv_designators,
                   match_result>>

\* the outer loop is over: lines 210-232, then the return of parse
Summarize ==
    /\ pc = "outer" /\ i > Len(drawing_elements)
    /\ text_objects' =
           sort_text_objects(
               text_objects \o
               [k \in 1..Len(clusters) |->
                    TextObject(drawing_elements, clusters[k])])
    /\ result' = <<Len(text_objects') > 0>>
    /\ pc' = "done"
    /\ UNCHANGED <<wf, earlier, pair, decode_call, cls, readable, lines, line_num, unit, format_x, format_y,
                   coordinates, board_dimensions, drawing_elements, used,
                   clusters, cluster, i, j, formed, csv_designators,
                   match_result>>

\* GTO_Parser.match_with_csv(names), called once parse has returned
MatchWithCsv ==
    /\ pc = "done" /\ cls = "GTO_Parser"
    /\ \E names \in NameLists :
          /\ csv_designators' = names
          /\ IF text_objects = <<>> \/ names = <<>>
             THEN /\ match_result' = <<FALSE>>
                  /\ UNCHANGED text_objects
             ELSE /\ match_result' = <<TRUE>>
                  /\ text_objects' = match_texts(text_objects, names)
    /\ pc' = "matched"
    /\ UNCHANGED <<wf, earlier, pair, decode_call, cls, readable, lines, line_num, unit, format_x, format_y,
                   coordinates, board_dimensions, drawing_elements, used,
                   clusters, cluster, i, j, formed, result>>

Next ==
    \/ OpenFile
    \/ OpenFails
    \/ GerberParseLine
    \/ GerberFinish
    \/ GTOParseLine
    \/ ClusterNothing
    \/ ClusterBegin
    \/ OuterSkip
    \/ OuterSeed
    \/ InnerSkip
    \/ InnerTest
    \/ CloseCluster
    \/ Summarize
    \/ MatchWithCsv

Spec == Init /\ [][Next]_vars

----------------------------------------------------------------------------
(* The convenience functions, once parse has returned *)

\* what parse_gerber_file returns: parser.get_dimensions() if parse()
\* returned True, else None (<<>>)
parse_gerber_file ==
    IF result = <<TRUE>> THEN board_dimensions ELSE <<>>

\* what extract_gto_coordinates returns: None (<<>>) if parse() returned
\* False, else the list parser.get_text_objects()
extract_gto_coordinates ==
    IF result = <<TRUE>> THEN <<text_objects>> ELSE <<>>

----------------------------------------------------------------------------
(* The coordinate conversion on its own *)

\* digits of the strings converted; with two integer digits at most the
\* value in inches, times 25.4 and Scale, stays below 2^31
DecodeDigits == {"0", "1", "2", "7"}

DigitStrings == SeqsUpTo(DecodeDigits, MaxDigits)

\* a parser object on which parse() has not been called
DecodeInit == Init /\ readable /\ lines = <<>>

\* x = self._convert_coordinate(coord_str, decimals), and x *= 25.4 when the
\* unit is 'INCH': the value for each of the two units
ConvertCall ==
    /\ pc = "open"
    /\ \E coord_str \in DigitStrings : \E decimals \in 0..MaxDecimals :
          /\ Len(coord_str) <= INTEGER_DIGITS + decimals
          /\ decode_call' =
                 <<[coord_str |-> coord_str, decimals |-> decimals,
                    mm |-> to_mm(convert_coordinate(coord_str, decimals), "MM"),
                    inch |-> to_mm(convert_coordinate(coord_str, decimals),
                                   "INCH")]>>
    /\ UNCHANGED <<wf, earlier, pair, cls, readable, lines, pc, line_num, unit,
                   format_x, format_y, coordinates, board_dimensions,
                   drawing_elements, text_objects, used, clusters, cluster,
                   i, j, formed, result, csv_designators, match_result>>

DecodeNext == ConvertCall

DecodeSpec == DecodeInit /\ [][DecodeNext]_vars

----------------------------------------------------------------------------
(* Two parser objects, the steps of their parse() calls interleaved *)

\* the inner loop of _cluster_elements from index jj on, as one value: the
\* cluster of the seed ii and the set used when the loop is over
RECURSIVE scan(_, _, _, _, _)
scan(elems, ii, cl, usedset, jj) ==
    IF jj > Len(elems) THEN [cluster |-> cl, used |-> usedset]
    ELSE IF is_used(jj, usedset) THEN scan(elems, ii, cl, usedset, jj + 1)
    ELSE IF absorbs(elems, cl, ii, jj)
         THEN scan(elems, ii, Append(cl, jj), usedset \cup {jj},
                   next_j(ii, jj, TRUE))
         ELSE scan(elems, ii, cl, usedset, next_j(ii, jj, FALSE))

\* the outer loop of _cluster_elements from index ii on: the kept clusters
RECURSIVE cluster_elements(_, _, _, _)
cluster_elements(elems, ii, usedset, kept) ==
    IF ii > Len(elems) THEN kept
    ELSE IF is_used(ii, usedset)
         THEN cluster_elements(elems, ii + 1, usedset, kept)
         ELSE LET r == scan(elems, ii, <<ii>>, usedset \cup {ii}, ii + 1)
              IN  cluster_elements(elems, ii + 1, r.used,
                                   IF keeps(r.cluster)
                                   THEN Append(kept, r.cluster) ELSE kept)

\* self.text_objects after _cluster_elements on a fresh GTO_Parser
labels_of(elems) ==
    LET cs == cluster_elements(elems, 1, {}, <<>>)
    IN  sort_text_objects([k \in 1..Len(cs) |-> TextObject(elems, cs[k])])

\* a parser object of class c on the file f after __init__
NewParser(c, f) ==
    [cls |-> c, lines |-> f, pc |-> "open", line_num |-> 1, unit |-> "INCH",
     format_x |-> IF c = "GerberParser" THEN GKO_format_x ELSE GTO_format_x,
     format_y |-> IF c = "GerberParser" THEN GKO_format_y ELSE GTO_format_y,
     points |-> <<>>, result |-> <<>>]

\* every object reads the unit of the first one, as it would if unit were
\* an attribute of a shared object
unit_of_shared(objs, p) == objs[1].unit

\* self.unit read by the object p
unit_of(objs, p) == objs[p].unit

\* one iteration of the loop of parse on the object p
line_step(objs, p) ==
    LET o == objs[p]
        line == Strip(o.lines[o.line_num])
        u == IF o.cls = "GerberParser" THEN gko_unit(line, unit_of(objs, p))
             ELSE gto_unit(line, unit_of(objs, p))
        f == line_format(line, o.format_x, o.format_y)
    IN  IF line = <<>> THEN [o EXCEPT !.line_num = @ + 1]
        ELSE [o EXCEPT !.line_num = @ + 1, !.unit = u,
                       !.format_x = f[1], !.format_y = f[2],
                       !.points = @ \o
                           IF o.cls = "GerberParser"
                           THEN extract_coordinates(
                                    line, in_force(o.unit, u),
                                    in_force(o.format_x, f[1]),
                                    in_force(o.format_y, f[2]))
                           ELSE parse_drawing_commands(
                                    line, in_force(o.unit, u),
                                    in_force(o.format_x, f[1]),
                                    in_force(o.format_y, f[2]))]

\* the end of parse on the object p: the value returned
finish_step(o) ==
    [o EXCEPT !.pc = "done",
              !.result = IF o.cls = "GerberParser"
                         THEN <<has_coordinates(o.points)>>
                         ELSE <<Len(labels_of(o.points)) > 0>>]

\* the other object is inside its loop
Busy(o) == o.pc = "lines" /\ o.line_num > 1

PairInit ==
    /\ ParserInit /\ readable /\ lines = <<>> /\ cls = "GerberParser"
    /\ \E c1, c2 \in {"GerberParser", "GTO_Parser"} :
       \E f1, f2 \in PairFiles :
          pair = [objs |-> <<NewParser(c1, f1), NewParser(c2, f2)>>,
                  overlapped |-> FALSE]
    /\ wf = <<>>

PairKeep ==
    UNCHANGED <<wf, earlier, decode_call, cls, readable, lines, pc, line_num, unit,
                format_x, format_y, coordinates, board_dimensions,
                drawing_elements, text_objects, used, clusters, cluster,
                i, j, formed, result, csv_designators, match_result>>

\* the object p opens and reads its file
PairOpen(p) ==
    /\ pair.objs[p].pc = "open"
    /\ pair' = [pair EXCEPT !.objs[p].pc = "lines",
                            !.overlapped = @ \/ Busy(pair.objs[3 - p])]
    /\ PairKeep

\* the object p reads its next line
PairLine(p) ==
    /\ pair.objs[p].pc = "lines"
    /\ pair.objs[p].line_num <= Len(pair.objs[p].lines)
    /\ pair' = [pair EXCEPT !.objs[p] = line_step(pair.objs, p),
                            !.overlapped = @ \/ Busy(pair.objs[3 - p])]
    /\ PairKeep

\* the object p is past its last line: parse returns
PairFinish(p) ==
    /\ pair.objs[p].pc = "lines"
    /\ pair.objs[p].line_num > Len(pair.objs[p].lines)
    /\ pair' = [pair EXCEPT !.objs[p] = finish_step(pair.objs[p]),
                            !.overlapped = @ \/ Busy(pair.objs[3 - p])]
    /\ PairKeep

PairNext ==
    \/ \E p \in 1..2 : PairOpen(p)
    \/ \E p \in 1..2 : PairLine(p)
    \/ \E p \in 1..2 : PairFinish(p)

PairSpec == PairInit /\ [][PairNext]_vars

----------------------------------------------------------------------------
(* parse() called again on the same parser object *)

\* parse() starts from empty lists
carried_reset(field) == <<>>

\* a list of the object when parse() is entered again: parse() assigns
\* neither self.coordinates nor self.drawing_elements nor self.text_objects
\* before it appends to them
carried(field) == field

\* the files that are parsed again: the short ones, and for the silkscreen
\* parser the ones with points at the clustering distance
ReparseFiles == PairFiles \cup ThresholdFiles

\* a parser object on one of these files
ReparseInit == Init /\ lines \in ReparseFiles

\* parse() is called on an object on which it has already returned: the
\* file is opened again and the loop starts at its first line; unit and
\* formats are as the last call left them
Reparse ==
    /\ pc = "done" /\ Len(earlier) + 1 < MaxCalls
    /\ earlier' = Append(earlier, [coordinates |-> coordinates,
                                    drawing_elements |-> drawing_elements,
                                    text_objects |-> text_objects,
                                    unit |-> unit,
                                    format |-> <<format_x, format_y>>])
    /\ coordinates' = carried(coordinates)
    /\ drawing_elements' = carried(drawing_elements)
    /\ text_objects' = carried(text_objects)
    /\ pc' = "open"
    /\ line_num' = 1
    /\ result' = <<>>
    /\ formed' = <<>>
    /\ UNCHANGED <<wf, pair, decode_call, cls, readable, lines, unit,
                   format_x, format_y, board_dimensions, used, clusters,
                   cluster, i, j,
                   csv_designators, match_result>>

ReparseNext ==
    \/ OpenFile
    \/ OpenFails
    \/ GerberParseLine
    \/ GerberFinish
    \/ GTOParseLine
    \/ ClusterNothing
    \/ ClusterBegin
    \/ OuterSkip
    \/ OuterSeed
    \/ InnerSkip
    \/ InnerTest
    \/ CloseCluster
    \/ Summarize
    \/ Reparse

ReparseSpec == ReparseInit /\ [][ReparseNext]_vars

----------------------------------------------------------------------------
(* PCB.py: the searchable PDF and main() *)

\* the slice [:50] of the placeholder PDF
PLACEHOLDER_ITEMS == 50

\* the name written to the 'file' key, by the function and by main()
GTO_NAME == "Panel 436-5002_R.GTO"

\* round(v, 4) of a fraction of model units, as a number of 1/10000 mm:
\* the nearest one, an exact tie going to the even one
Round4(f) ==
    LET den == f.d * (Scale \div 10 ^ 4)
        q   == f.n \div den
        r   == f.n % den
    IN  IF 2 * r < den THEN q
        ELSE IF 2 * r > den THEN q + 1
        ELSE IF q % 2 = 0 THEN q ELSE q + 1

\* TextObject.to_dict()
to_dict(obj) ==
    [designator |-> obj.text,
     x_mm |-> Round4(obj.x),
     y_mm |-> Round4(obj.y),
     size_mm |-> Round4(Frac(obj.size, 1)),
     rotation_degrees |-> obj.rotation,
     mirrored |-> obj.mirrored]

\* the dictionary that is dumped to designators.json
Document(objs) ==
    [file |-> GTO_NAME, text_count |-> Len(objs),
     designators |-> [k \in 1..Len(objs) |-> to_dict(objs[k])]]

\* a designators.json that json.load reads as data
JsonFile(data) == <<[parses |-> TRUE, data |-> data]>>

\* a designators.json that json.load rejects
BadJsonFile == <<[parses |-> FALSE, data |-> <<>>]>>

\* s[:n]
Take(s, n) == SubSeq(s, 1, IF Len(s) < n THEN Len(s) ELSE n)

\* what c.drawString puts on the page for one item of the file: the
\* designator, at the place given by x_mm and y_mm
drawn(item) == <<item.designator, item.x_mm, item.y_mm>>

\* every object is read to the end of its file
RECURSIVE read_all(_)
read_all(o) ==
    IF o.line_num > Len(o.lines) THEN o ELSE read_all(line_step(<<o>>, 1))

\* load_gto_textobjects(gto_file): <<>> is None; gto is <<>> when the file
\* does not exist and <<lines>> when it does
load_gto_textobjects(gto) ==
    IF gto = <<>> THEN <<>>
    ELSE LET textobjects ==
                 labels_of(read_all(NewParser("GTO_Parser", gto[1])).points)
         IN  IF Len(textobjects) > 0 THEN <<textobjects>> ELSE <<>>

\* designators.json is written on every call
writes_json_always(exists) == TRUE

\* line 427: designators.json is written when it does not exist
writes_json(exists) == ~exists

\* create_searchable_pdf_from_json(gto_textobjects, 'silkscreen.png', ...)
\* in the environment e: the designators.json it leaves, the items on the
\* pages of the PDF it saves (<<>> when it saves none) and what it returns
create_searchable_pdf_from_json(gto_textobjects, e) ==
    LET fails == [json |-> e.json, pdf |-> <<>>, ret |-> FALSE]
        must  == writes_json(e.json # <<>>)
        file  == IF must THEN JsonFile(Document(gto_textobjects)) ELSE e.json
    IN  IF ~e.libs THEN fails
        ELSE IF must /\ ~e.writable THEN fails
        ELSE IF ~file[1].parses THEN [fails EXCEPT !.json = file]
        ELSE LET items == file[1].data.designators
             IN  IF e.image = "missing"
                 THEN [json |-> file, ret |-> TRUE,
                       pdf |-> <<[k \in 1..Len(Take(items, PLACEHOLDER_ITEMS))
                                     |-> drawn(items[k])]>>]
                 ELSE IF e.image = "broken"
                 THEN [fails EXCEPT !.json = file]
                 ELSE [json |-> file, ret |-> TRUE,
                       pdf |-> <<[k \in 1..Len(items) |-> drawn(items[k])]>>]

\* designators.json is exported when it does not exist yet
main_export_once(json, objs) ==
    IF json = <<>> THEN JsonFile(Document(objs)) ELSE json

\* lines 597-603: main() opens designators.json for writing and dumps the
\* labels of this run
main_export(json, objs) == JsonFile(Document(objs))

\* line 636: return success1
main_return(success1, success2, success3) == success1

\* the silkscreen files of the runs
WorkflowFiles == PairFiles \cup ExampleFiles

\* the label lists of these files
WorkflowLabels ==
    {load_gto_textobjects(<<f>>)[1] :
        f \in {g \in WorkflowFiles : load_gto_textobjects(<<g>>) # <<>>}}

\* the process starts: the silkscreen file is there or not, designators.json
\* is absent, unreadable or left by a run on another file, silkscreen.png
\* is absent, unreadable or an image, reportlab and PIL are installed or
\* not, the directory can be written or not
WorkflowInit ==
    /\ ParserInit /\ readable /\ lines = <<>> /\ cls = "GTO_Parser"
    /\ pair = <<>>
    /\ \E gto \in {<<>>} \cup {<<f>> : f \in WorkflowFiles} :
       \E json \in {<<>>, BadJsonFile}
                     \cup {JsonFile(Document(l)) : l \in WorkflowLabels} :
       \E image \in {"missing", "broken", "ok"} :
       \E libs, writable \in BOOLEAN :
          wf = [pc |-> "start", gto |-> gto, json |-> json, image |-> image,
                libs |-> libs, writable |-> writable,
                json_before |-> json, gto_textobjects |-> <<>>,
                success1 |-> <<>>, success2 |-> <<>>, success3 |-> <<>>,
                pdf |-> <<>>, ret |-> <<>>]

WorkflowKeep ==
    UNCHANGED <<earlier, pair, decode_call, cls, readable, lines, pc,
                line_num, unit, format_x, format_y, coordinates,
                board_dimensions, drawing_elements, text_objects, used,
                clusters, cluster, i, j, formed, result, csv_designators,
                match_result>>

\* a caller other than main() calls create_searchable_pdf_from_json with a
\* list of labels
CallCreate ==
    /\ wf.pc = "start"
    /\ \E arg \in {<<>>} \cup WorkflowLabels :
          LET r == create_searchable_pdf_from_json(arg, wf)
          IN  wf' = [wf EXCEPT !.pc = "called", !.gto_textobjects = <<arg>>,
                               !.json = r.json, !.pdf = r.pdf,
                               !.success3 = <<r.ret>>]
    /\ WorkflowKeep

\* main(): load_all_pcb_data returns None, main returns False
MainLoadFails ==
    /\ wf.pc = "start"
    /\ wf' = [wf EXCEPT !.pc = "returned", !.ret = <<FALSE>>]
    /\ WorkflowKeep

\* main(): load_all_pcb_data returns the data, with the labels of the
\* silkscreen file or None
MainLoad ==
    /\ wf.pc = "start"
    /\ wf' = [wf EXCEPT !.pc = "zoom",
                        !.gto_textobjects = load_gto_textobjects(wf.gto)]
    /\ WorkflowKeep

\* step 1: create_zoomed_layout returns True or False
MainZoom ==
    /\ wf.pc = "zoom"
    /\ \E ok \in BOOLEAN :
          wf' = [wf EXCEPT !.pc = "render", !.success1 = <<ok>>]
    /\ WorkflowKeep

\* step 2: render_gerber_to_png returns False (no silkscreen file, no PIL,
\* no write) or saves silkscreen.png and returns True
MainRender ==
    /\ wf.pc = "render"
    /\ \E ok \in BOOLEAN :
          /\ ok => wf.gto # <<>> /\ wf.writable
          /\ wf' = [wf EXCEPT !.pc = "step3", !.success2 = <<ok>>,
                              !.image = IF ok THEN "ok" ELSE @]
    /\ WorkflowKeep

\* step 3 without labels: the searchable PDF is skipped
MainSkip ==
    /\ wf.pc = "step3" /\ wf.gto_textobjects = <<>>
    /\ wf' = [wf EXCEPT !.pc = "summary", !.success3 = <<FALSE>>]
    /\ WorkflowKeep

\* step 3 with labels: designators.json is exported; open(..., 'w') raises
\* when the directory cannot be written, and the exception leaves main()
MainExport ==
    /\ wf.pc = "step3" /\ wf.gto_textobjects # <<>>
    /\ IF wf.writable
       THEN wf' = [wf EXCEPT !.pc = "create",
                             !.json = main_export(@, wf.gto_textobjects[1])]
       ELSE wf' = [wf EXCEPT !.pc = "raised"]
    /\ WorkflowKeep

\* step 3 with labels: create_searchable_pdf_from_json is called
MainCreate ==
    /\ wf.pc = "create"
    /\ LET r == create_searchable_pdf_from_json(wf.gto_textobjects[1], wf)
       IN  wf' = [wf EXCEPT !.pc = "summary", !.json = r.json,
                            !.pdf = r.pdf, !.success3 = <<r.ret>>]
    /\ WorkflowKeep

\* the final summary is printed and main() returns
MainReturn ==
    /\ wf.pc = "summary"
    /\ wf' = [wf EXCEPT !.pc = "returned",
                        !.ret = <<main_return(wf.success1[1], wf.success2[1],
                                              wf.success3[1])>>]
    /\ WorkflowKeep

WorkflowNext ==
    \/ CallCreate
    \/ MainLoadFails
    \/ MainLoad
    \/ MainZoom
    \/ MainRender
    \/ MainSkip
    \/ MainExport
    \/ MainCreate
    \/ MainReturn

WorkflowSpec == WorkflowInit /\ [][WorkflowNext]_vars

----------------------------------------------------------------------------
(* Vocabulary of the properties *)

IsGTO == cls = "GTO_Parser"

NumElems == Len(drawing_elements)

Members(cl) == {cl[k] : k \in 1..Len(cl)}

\* the Euclidean distance of two points is below CLUSTER_DISTANCE
Near(p, q) == SumSqCmp(Abs(p.x - q.x), Abs(p.y - q.y), CLUSTER_DISTANCE) < 0

\* the inner loop is about to test the unassigned index j
AtTest == pc = "inner" /\ j <= NumElems /\ j \notin used

\* the clusters closed so far, and the open one while the inner loop runs
AllClusters == IF pc = "inner" THEN Append(formed, cluster) ELSE formed

\* the members of cl that a chain of members, each link shorter than
\* CLUSTER_DISTANCE, joins to a member in S
RECURSIVE Linked(_, _)
Linked(cl, S) ==
    LET more == S \cup {m \in Members(cl) :
                    \E n \in S : Near(drawing_elements[m], drawing_elements[n])}
    IN  IF more = S THEN S ELSE Linked(cl, more)

\* the element at index m is farther than CLUSTER_DISTANCE from the centroid
\* of cl: |n * p - sum| > n * CLUSTER_DISTANCE, n the size of cl
FarFromCentroid(cl, m) ==
    LET xs == [k \in 1..Len(cl) |-> drawing_elements[cl[k]].x]
        ys == [k \in 1..Len(cl) |-> drawing_elements[cl[k]].y]
    IN  SumSqCmp(Abs(Len(cl) * drawing_elements[m].x - SumOver(xs, Len(cl))),
                 Abs(Len(cl) * drawing_elements[m].y - SumOver(ys, Len(cl))),
                 Len(cl) * CLUSTER_DISTANCE) > 0

\* (a.x, a.y) <= (b.x, b.y) as tuples of fractions
KeyLeq(a, b) ==
    \/ a.x.n * b.x.d < b.x.n * a.x.d
    \/ /\ a.x.n * b.x.d = b.x.n * a.x.d
       /\ a.y.n * b.y.d <= b.y.n * a.y.d

\* the point list of the parser object
Points == IF IsGTO THEN drawing_elements ELSE coordinates

XY(pts) == [k \in 1..Len(pts) |-> <<pts[k].x, pts[k].y>>]

\* the unit directive a line is for the parser: "" when it is none.  The
\* outline parser looks for the marker at the start of the line, the
\* silkscreen parser anywhere in it
LineUnit(line) ==
    LET has(marker) == IF IsGTO THEN Contains(line, marker)
                       ELSE StartsWith(line, marker)
    IN  IF has(M_MOIN) THEN "INCH" ELSE IF has(M_MOMM) THEN "MM" ELSE ""

\* int(d) / 10^n in the unit u, as millimetres times Scale
Millimetres(d, n, u) ==
    IF u = "INCH" THEN IntOf(d) * INCH_MM_X10 * (10 ^ (MaxDecimals - n))
    ELSE IntOf(d) * (10 ^ (MaxDecimals + 1 - n))

\* what the first m lines of the file say: the unit and the format of the
\* most recent directives among them (the defaults where there is none; a
\* blank line says nothing), and the (x, y) of their tokens, each under the
\* directives in force at its line
RECURSIVE Decoded(_)
Decoded(m) ==
    IF m = 0
    THEN [unit |-> "INCH",
          format |-> IF IsGTO THEN <<GTO_format_x, GTO_format_y>>
                     ELSE <<GKO_format_x, GKO_format_y>>,
          xy |-> <<>>]
    ELSE LET prev == Decoded(m - 1)
             line == Strip(lines[m])
             ms == FindAll(line, 1)
             u == IF LineUnit(line) # "" THEN LineUnit(line) ELSE prev.unit
             f == IF StartsWith(line, M_FSLAX) /\ FormatMatch(line) # <<>>
                  THEN FormatMatch(line)
                  ELSE prev.format
         IN  [unit |-> u, format |-> f,
              xy |-> IF ms = <<>> THEN prev.xy
                     ELSE prev.xy \o
                          [k \in 1..Len(ms) |->
                              <<Millimetres(ms[k].x_str, f[1], u),
                                Millimetres(ms[k].y_str, f[2], u)>>]]

HasToken(m) == FindAll(Strip(lines[m]), 1) # <<>>

----------------------------------------------------------------------------
(* Properties *)

\* C1: while a cluster is open, an unassigned point j that is nearer than
\* 5.0 mm to any point already in the cluster is added to it at its test.
C1_ChainAbsorption ==
    [][(AtTest /\ \E m \in Members(cluster) :
                      Near(drawing_elements[m], drawing_elements[j]))
          => j \in Members(cluster')]_vars

\* C2: once the clustering has run, the labels are, one for one, the
\* summaries of the closed clusters of three or more members; a cluster of
\* one or two members contributes none.
C2_CardinalityGate ==
    (IsGTO /\ pc = "done") =>
        /\ Len(text_objects)
               = Cardinality({k \in 1..Len(formed) : Len(formed[k]) >= 3})
        /\ \A k \in 1..Len(formed) :
              LET t == TextObject(drawing_elements, formed[k])
              IN  Cardinality({n \in 1..Len(text_objects) : text_objects[n] = t})
                      = Cardinality({n \in 1..Len(formed) :
                            /\ Len(formed[n]) >= 3
                            /\ TextObject(drawing_elements, formed[n]) = t})

\* C2 witness: the run closed a cluster of two and a cluster of three, and
\* has one label.
C2_Witness ==
    /\ IsGTO /\ pc = "done"
    /\ \E a, b \in 1..Len(formed) : Len(formed[a]) = 2 /\ Len(formed[b]) = 3
    /\ Len(text_objects) = 1

\* C3: in both parsers, after every line of the loop and when parse has
\* returned, the points read so far are the tokens of the lines read so far,
\* each decoded under the last unit directive and the last well-formed
\* format directive at or before its line (the defaults if there is none);
\* so a later directive changes no point already in the list.
C3_StickyDirectives ==
    pc \in {"lines", "done"} => XY(Points) = Decoded(line_num - 1).xy

\* C3 witness: the file has two token lines with a directive between them
\* that changes the unit or the format, and parse has returned.
C3_Witness ==
    /\ pc = "done" /\ readable
    /\ \E a, b \in 1..Len(lines) :
          /\ a < b /\ HasToken(a) /\ HasToken(b)
          /\ (Decoded(a).unit # Decoded(b).unit
                 \/ Decoded(a).format # Decoded(b).format)
          /\ Len(Points) >= 2

C5_SingleForwardPass ==
    [][pc = "inner"
          => /\ Members(cluster') \ Members(cluster) \subseteq {j}
             /\ Members(cluster) \subseteq Members(cluster')
             /\ pc' = "inner" => (j' = j + 1 /\ i' = i)
             /\ pc' # "inner" => (j > NumElems /\ cluster' = cluster
                                     /\ formed' = Append(formed, cluster))]_vars

\* C5 witness: a closed cluster passed over an unassigned index r and later
\* absorbed an index k > r that is nearer than 5.0 mm to r.
C5_Witness ==
    \E c \in 1..Len(formed) : \E r, k \in 1..NumElems :
        /\ formed[c][1] < r /\ r < k
        /\ k \in Members(formed[c])
        /\ \A b \in 1..c : r \notin Members(formed[b])
        /\ Near(drawing_elements[r], drawing_elements[k])

\* C6: every member of a kept cluster is joined to the seed by a chain of
\* members of that cluster whose consecutive points are nearer than 5.0 mm.
C6_Connectivity ==
    \A c \in 1..Len(clusters) :
        Linked(clusters[c], {clusters[c][1]}) = Members(clusters[c])

\* C6 witness: a kept cluster has a member farther than 5.0 mm from the
\* centroid of the cluster.
C6_Witness ==
    /\ pc = "done"
    /\ \E c \in 1..Len(clusters) : \E m \in Members(clusters[c]) :
          FarFromCentroid(clusters[c], m)

\* C7: at every step no index occurs twice in the closed clusters and the
\* open one, every kept cluster is a closed cluster of three or more, and so
\* no member of a dropped cluster is in a kept one.
C7_Disjoint ==
    /\ \A a, b \in 1..Len(AllClusters) :
          \A p \in 1..Len(AllClusters[a]) : \A q \in 1..Len(AllClusters[b]) :
              AllClusters[a][p] = AllClusters[b][q] => (a = b /\ p = q)
    /\ \A c \in 1..Len(clusters) :
          /\ Len(clusters[c]) >= 3
          /\ \E a \in 1..Len(formed) : formed[a] = clusters[c]
    /\ \A a \in 1..Len(formed) : \A c \in 1..Len(clusters) :
          Len(formed[a]) <= 2
              => Members(formed[a]) \cap Members(clusters[c]) = {}

\* C7 witness: a cluster of two was dropped and a later cluster was kept.
C7_Witness ==
    /\ pc = "done"
    /\ \E a, b \in 1..Len(formed) :
          /\ a < b /\ Len(formed[a]) = 2
          /\ \E c \in 1..Len(clusters) : clusters[c] = formed[b]

\* C8: once the clustering has run, the labels are in ascending order of
\* (x, y).
C8_SortedByXY ==
    (IsGTO /\ pc \in {"done", "matched"}) =>
        \A k \in 1..(Len(text_objects) - 1) :
            KeyLeq(text_objects[k], text_objects[k + 1])

\* C8 witness: two clusters were kept, and the one found first has the
\* greater (x, y).
C8_Witness ==
    /\ pc = "done" /\ Len(clusters) = 2 /\ Len(text_objects) = 2
    /\ ~KeyLeq(TextObject(drawing_elements, clusters[1]),
               TextObject(drawing_elements, clusters[2]))

\* C10: a line that starts with %FSLAX and does not match the format
\* pattern leaves format_x, format_y and unit as they were, and the loop
\* goes on to the next line.
C10_MalformedFormat ==
    [][(/\ pc = "lines" /\ line_num <= Len(lines)
        /\ StartsWith(Strip(lines[line_num]), M_FSLAX)
        /\ FormatMatch(Strip(lines[line_num])) = <<>>)
          => /\ format_x' = format_x
             /\ format_y' = format_y
             /\ unit' = unit
             /\ pc' = "lines" /\ line_num' = line_num + 1]_vars

\* C11: in both parsers a step of the loop changes the unit only when the
\* stripped line begins with %MOIN or %MOMM; a line that has a marker at a
\* later position leaves the unit as it was.
C11_UnitLineLeading ==
    [][(pc = "lines" /\ unit' # unit)
          => \/ StartsWith(Strip(lines[line_num]), M_MOIN)
             \/ StartsWith(Strip(lines[line_num]), M_MOMM)]_vars

\* the digits of the command code that a point of the list carries
CodeDigits(pt) ==
    IF IsGTO THEN pt.aperture
    ELSE IF pt.command = <<"DRAW">> THEN <<"0", "1">>
    ELSE IF pt.command = <<"MOVE">> THEN <<"0", "2">>
    ELSE IF pt.command = <<"FLASH">> THEN <<"0", "3">>
    ELSE Tail(pt.command)

\* C12: the command code of every point of the list has exactly two digits:
\* a D followed by one digit gives no point, and a third digit after D is
\* not part of the code.
C12_TwoDigitCode ==
    \A k \in 1..Len(Points) : Len(CodeDigits(Points[k])) = 2

\* the tokens of the first m lines of the file, in file order
RECURSIVE Tokens(_)
Tokens(m) ==
    IF m = 0 THEN <<>> ELSE Tokens(m - 1) \o FindAll(Strip(lines[m]), 1)

\* the point pt carries the tag of the command code: draw, move or flash for
\* 01, 02, 03, and for any other code none of the three but its digits
Tagged(pt, code) ==
    LET kind == IF IsGTO THEN pt.element_type
                ELSE IF pt.command = <<"DRAW">> THEN "draw"
                ELSE IF pt.command = <<"MOVE">> THEN "move"
                ELSE IF pt.command = <<"FLASH">> THEN "flash"
                ELSE "other"
        digits == IF IsGTO THEN pt.aperture ELSE Tail(pt.command)
    IN  IF code = <<"0", "1">> THEN kind = "draw"
        ELSE IF code = <<"0", "2">> THEN kind = "move"
        ELSE IF code = <<"0", "3">> THEN kind = "flash"
        ELSE kind \notin {"draw", "move", "flash"} /\ digits = code

\* C13: in both parsers the point of a token with code 01 is tagged draw,
\* with 02 move, with 03 flash, and the point of a token with any other code
\* is tagged as none of the three and carries the digits of its code.
C13_CommandMapping ==
    pc \in {"lines", "done"} =>
        LET toks == Tokens(line_num - 1)
        IN  /\ Len(Points) = Len(toks)
            /\ \A k \in 1..Len(toks) : Tagged(Points[k], toks[k].command)

\* the characters of s from position a to position b are digits, one at least
DigitRun(s, a, b) == a <= b /\ \A k \in a..b : IsDigit(s[k])

\* a token starts at position p of s with its Y at position a and its D at
\* position b: X, digits, Y, digits, D, and a digit after D
TokenShape(s, p, a, b) ==
    /\ s[p] = "X" /\ DigitRun(s, p + 1, a - 1)
    /\ s[a] = "Y" /\ DigitRun(s, a + 1, b - 1)
    /\ s[b] = "D" /\ b < Len(s) /\ IsDigit(s[b + 1])

\* the positions of s where a token starts
TokenStarts(s) ==
    {p \in 1..Len(s) :
        /\ s[p] = "X"
        /\ \E a \in (p + 2)..Len(s) :
              /\ s[a] = "Y"
              /\ \E b \in (a + 2)..Len(s) : TokenShape(s, p, a, b)}

\* the (x, y) of the tokens of s from left to right, in the unit u and the
\* format <<fx, fy>>
RECURSIVE LineXY(_, _, _, _, _)
LineXY(s, starts, u, fx, fy) ==
    IF starts = {} THEN <<>>
    ELSE LET p == CHOOSE q \in starts : \A r \in starts : q <= r
             a == CHOOSE q \in (p + 2)..Len(s) :
                      s[q] = "Y" /\ \E b \in (q + 2)..Len(s) :
                                       TokenShape(s, p, q, b)
             b == CHOOSE q \in (a + 2)..Len(s) : TokenShape(s, p, a, q)
         IN  <<<<Millimetres(SubSeq(s, p + 1, a - 1), fx, u),
                 Millimetres(SubSeq(s, a + 1, b - 1), fy, u)>>>>
                 \o LineXY(s, starts \ {p}, u, fx, fy)

\* C14: a step of the loop over a line with k tokens appends k points to
\* the point list, the decoded tokens of the line from left to right, and
\* no other step changes the list, so the list holds one point for every
\* token of the file in file order; a step over a blank line appends none
\* and leaves unit and format as they were.
C14_PointStreamOrder ==
    [][IF pc = "lines" /\ line_num <= Len(lines)
       THEN LET line == Strip(lines[line_num])
            IN  /\ XY(Points') = XY(Points) \o
                       LineXY(line, TokenStarts(line), unit', format_x',
                              format_y')
                /\ Len(Points') = Len(Points) + Cardinality(TokenStarts(line))
                /\ line = <<>> => /\ Points' = Points
                                  /\ unit' = unit
                                  /\ format_x' = format_x
                                  /\ format_y' = format_y
       ELSE Points' = Points]_vars

\* C14 witness: parse has returned on a file with a blank line before a
\* last line of two tokens, and the list ends with the two points of that
\* line, which differ.
C14_Witness ==
    /\ pc = "done" /\ readable
    /\ \E a, b \in 1..Len(lines) :
          /\ a < b /\ b = Len(lines) /\ Strip(lines[a]) = <<>>
          /\ Cardinality(TokenStarts(Strip(lines[b]))) = 2
          /\ Len(Points) >= 2
          /\ XY(Points)[Len(Points) - 1] # XY(Points)[Len(Points)]

\* the characters of c from position a to position b are the letter L and
\* digits, with or without a minus sign before the digits
Coord(c, L, a, b) ==
    /\ a + 1 <= b /\ b <= Len(c) /\ c[a] = L
    /\ \/ DigitRun(c, a + 1, b)
       \/ c[a + 1] = "-" /\ DigitRun(c, a + 2, b)

\* c ends, after position b, with D and digits
CodeAfter(c, b) == b + 2 <= Len(c) /\ c[b + 1] = "D" /\ DigitRun(c, b + 2, Len(c))

\* the command c has no X component, has no Y component, or has a minus
\* sign before the digits of X or of Y
Unmatched(c) ==
    \/ \E b \in 1..Len(c) : Coord(c, "Y", 1, b) /\ CodeAfter(c, b)
    \/ \E b \in 1..Len(c) : Coord(c, "X", 1, b) /\ CodeAfter(c, b)
    \/ \E a, b \in 1..Len(c) :
          /\ Coord(c, "X", 1, a) /\ Coord(c, "Y", a + 1, b) /\ CodeAfter(c, b)
          /\ "-" \in {c[2], c[a + 2]}

\* the line s without its commands (the stretches that end with *) of these
\* shapes
RECURSIVE WithoutUnmatched(_)
WithoutUnmatched(s) ==
    LET stars == {q \in 1..Len(s) : s[q] = "*"}
    IN  IF stars = {} THEN s
        ELSE LET q == CHOOSE r \in stars : \A t \in stars : r <= t
             IN  (IF Unmatched(SubSeq(s, 1, q - 1)) THEN <<>>
                  ELSE SubSeq(s, 1, q))
                     \o WithoutUnmatched(SubSeq(s, q + 1, Len(s)))

\* what a parser of this class reads in the first m lines of file: the unit
\* and the format in force after them and the (x, y) of their tokens
RECURSIVE Reading(_, _)
Reading(file, m) ==
    IF m = 0
    THEN [unit |-> "INCH",
          format |-> IF IsGTO THEN <<GTO_format_x, GTO_format_y>>
                     ELSE <<GKO_format_x, GKO_format_y>>,
          xy |-> <<>>]
    ELSE LET prev == Reading(file, m - 1)
             line == Strip(file[m])
             u == IF LineUnit(line) # "" THEN LineUnit(line) ELSE prev.unit
             f == IF StartsWith(line, M_FSLAX) /\ FormatMatch(line) # <<>>
                  THEN FormatMatch(line)
                  ELSE prev.format
         IN  [unit |-> u, format |-> f,
              xy |-> prev.xy \o LineXY(line, TokenStarts(line), u, f[1], f[2])]

\* C15: a command without X, without Y, or with a minus sign before the
\* digits of X or of Y adds no point and changes neither unit nor format:
\* after every line, and when parse has returned, the point list, the unit
\* and the format are those of the same file with these commands taken out.
C15_UnmatchedShapes ==
    (pc \in {"lines", "done"} /\ readable) =>
        LET file == [m \in 1..Len(lines) |-> WithoutUnmatched(lines[m])]
            r == Reading(file, line_num - 1)
        IN  /\ XY(Points) = r.xy
            /\ unit = r.unit
            /\ <<format_x, format_y>> = r.format

\* C15 witness: parse has returned on a file with a line of such commands
\* only, of all four shapes, and a line with a token between two such
\* commands, and the point list is not empty.
C15_Witness ==
    /\ pc = "done" /\ readable /\ Points # <<>>
    /\ \E a, b \in 1..Len(lines) :
          /\ lines[a] = L_SHAPES /\ WithoutUnmatched(lines[a]) = <<>>
          /\ lines[b] = L_MIXED
          /\ WithoutUnmatched(lines[b])
                 = <<"X", "7", "Y", "8", "D", "0", "2", "*">>

\* int(d) of a digit string, 0 for the empty one
RECURSIVE Value(_)
Value(d) == IF d = <<>> THEN 0 ELSE 10 * Value(SubSeq(d, 1, Len(d) - 1))
                                      + DigitVal(d[Len(d)])

C17_BoardExtent ==
    (~IsGTO /\ pc = "done" /\ coordinates # <<>>) =>
        /\ Len(board_dimensions) = 1
        /\ LET d == board_dimensions[1]
               K == 1..Len(coordinates)
           IN  /\ \A k \in K : /\ d.min_x <= coordinates[k].x
                               /\ coordinates[k].x <= d.max_x
                               /\ d.min_y <= coordinates[k].y
                               /\ coordinates[k].y <= d.max_y
               /\ \E k \in K : coordinates[k].x = d.min_x
               /\ \E k \in K : coordinates[k].x = d.max_x
               /\ \E k \in K : coordinates[k].y = d.min_y
               /\ \E k \in K : coordinates[k].y = d.max_y
               /\ d.width = d.max_x - d.min_x
               /\ d.height = d.max_y - d.min_y
               /\ d.min_x <= d.max_x /\ d.min_y <= d.max_y
               /\ d.width >= 0 /\ d.height >= 0

\* C17 witness: the list has a MOVE, a FLASH and a pass-through point, the
\* extent has a width and a height, max_y is reached by a MOVE point only,
\* max_x by a FLASH point only and min_y by a pass-through point only.
C17_Witness ==
    /\ ~IsGTO /\ pc = "done" /\ Len(board_dimensions) = 1
    /\ LET d == board_dimensions[1]
           K == 1..Len(coordinates)
       IN  /\ d.width > 0 /\ d.height > 0
           /\ \A k \in K : /\ coordinates[k].y = d.max_y
                                  => coordinates[k].command = <<"MOVE">>
                           /\ coordinates[k].x = d.max_x
                                  => coordinates[k].command = <<"FLASH">>
                           /\ coordinates[k].y = d.min_y
                                  => coordinates[k].command
                                        \notin {<<"DRAW">>, <<"MOVE">>,
                                                <<"FLASH">>}

\* C18: when GerberParser.parse has returned, board_dimensions is None
\* exactly when the coordinate list is empty, parse returned True exactly
\* when board_dimensions is not None, and parse_gerber_file returns
\* board_dimensions.
C18_EmptyExtent ==
    (~IsGTO /\ pc = "done") =>
        /\ board_dimensions = <<>> <=> coordinates = <<>>
        /\ result \in {<<TRUE>>, <<FALSE>>}
        /\ result = <<TRUE>> <=> board_dimensions # <<>>
        /\ parse_gerber_file = board_dimensions

\* C18 witness: GerberParser.parse has returned False on a readable file of
\* two lines or more, not all blank, that has no token.
C18_Witness ==
    /\ ~IsGTO /\ pc = "done" /\ readable /\ Len(lines) >= 2
    /\ coordinates = <<>> /\ result = <<FALSE>>
    /\ \E m \in 1..Len(lines) : Strip(lines[m]) # <<>>

\* C19: when the file cannot be read, parse of either parser returns False
\* and reads nothing, then or later: the point lists and the label list stay
\* empty, board_dimensions stays None, and unit and format keep the values
\* __init__ gave them.
C19_IOFailure ==
    ~readable =>
        /\ pc \in {"open", "done", "matched"}
        /\ pc # "open" => result = <<FALSE>>
        /\ line_num = 1
        /\ coordinates = <<>> /\ drawing_elements = <<>>
        /\ text_objects = <<>> /\ board_dimensions = <<>>
        /\ unit = "INCH"
        /\ <<format_x, format_y>>
               = IF IsGTO THEN <<GTO_format_x, GTO_format_y>>
                 ELSE <<GKO_format_x, GKO_format_y>>

\* C19 witness: parse has returned on a file that cannot be read.
C19_Witness == ~readable /\ pc = "done" /\ result # <<>>

\* C20: when parse has returned on a readable file that gave no coordinate
\* (GerberParser) or no label (GTO_Parser), what the caller gets, from parse
\* or from the convenience function, is not what it gets for a file that
\* cannot be read: False from parse and None from the function.
C20_EmptyDistinct ==
    (/\ pc = "done" /\ readable
     /\ IF IsGTO THEN text_objects = <<>> ELSE coordinates = <<>>)
        => \/ result # <<FALSE>>
           \/ (IF IsGTO THEN extract_gto_coordinates
               ELSE parse_gerber_file) # <<>>

\* the label t is the summary of the cluster cl: t.x and t.y are the means
\* of the members' x and y, t.size is the larger of the spreads of x and of
\* y over the members, rotation is 0 and mirrored is False
Summary(t, cl) ==
    LET M == Members(cl)
        E(m) == drawing_elements[m]
        xs == [k \in 1..Len(cl) |-> E(cl[k]).x]
        ys == [k \in 1..Len(cl) |-> E(cl[k]).y]
    IN  /\ t.x.d > 0 /\ t.x.n * Len(cl) = t.x.d * SumOver(xs, Len(cl))
        /\ t.y.d > 0 /\ t.y.n * Len(cl) = t.y.d * SumOver(ys, Len(cl))
        /\ \A a, b \in M : /\ E(a).x - E(b).x <= t.size
                           /\ E(a).y - E(b).y <= t.size
        /\ \E a, b \in M : \/ E(a).x - E(b).x = t.size
                           \/ E(a).y - E(b).y = t.size
        /\ t.rotation = 0 /\ t.mirrored = FALSE

\* C21: once the clustering has run, the labels are as many as the kept
\* clusters, every kept cluster has a label that is its summary (mean x,
\* mean y, size the larger spread, rotation 0, mirrored False), and every
\* label is the summary of a kept cluster.
C21_ClusterSummary ==
    (IsGTO /\ pc \in {"done", "matched"}) =>
        /\ Len(text_objects) = Len(clusters)
        /\ \A c \in 1..Len(clusters) : \E k \in 1..Len(text_objects) :
              Summary(text_objects[k], clusters[c])
        /\ \A k \in 1..Len(text_objects) : \E c \in 1..Len(clusters) :
              Summary(text_objects[k], clusters[c])

\* C21 witness: the members (1.00, 1.00), (1.50, 1.20), (2.00, 1.10) gave
\* one label, at (1.50, 1.10) with size 1.00.
C21_Witness ==
    /\ IsGTO /\ pc = "done" /\ lines \in ExampleFiles
    /\ XY(drawing_elements)
           = <<<<Scale, Scale>>, <<15 * (Scale \div 10), 12 * (Scale \div 10)>>,
               <<2 * Scale, 11 * (Scale \div 10)>>>>
    /\ Len(text_objects) = 1
    /\ text_objects[1].x = [n |-> 15 * (Scale \div 10), d |-> 1]
    /\ text_objects[1].y = [n |-> 11 * (Scale \div 10), d |-> 1]
    /\ text_objects[1].size = Scale

\* the elements of the set S of numbers in ascending order
RECURSIVE Ascending(_)
Ascending(S) ==
    IF S = {} THEN <<>>
    ELSE LET m == CHOOSE a \in S : \A b \in S : a <= b
         IN  <<m>> \o Ascending(S \ {m})

\* the kept clusters as a function of the (x, y) of the points alone: every
\* index in no earlier cluster is a seed, in order, its cluster is the seed
\* and the later unassigned indices nearer than CLUSTER_DISTANCE to the
\* seed, and a cluster of three or more is kept
RECURSIVE ClustersOfXY(_, _, _, _)
ClustersOfXY(xy, seed, taken, kept) ==
    IF seed > Len(xy) THEN kept
    ELSE IF seed \in taken THEN ClustersOfXY(xy, seed + 1, taken, kept)
    ELSE LET near == {k \in (seed + 1)..Len(xy) :
                         /\ k \notin taken
                         /\ SumSqCmp(Abs(xy[seed][1] - xy[k][1]),
                                     Abs(xy[seed][2] - xy[k][2]),
                                     CLUSTER_DISTANCE) < 0}
             cl == <<seed>> \o Ascending(near)
         IN  ClustersOfXY(xy, seed + 1, taken \cup {seed} \cup near,
                          IF Len(cl) >= 3 THEN Append(kept, cl) ELSE kept)

\* C22: once the clustering has run, the kept clusters are a function of
\* the (x, y) of the points at every index, and the x, y and size of the
\* labels are the summaries of these clusters; so two point lists with the
\* same coordinates and other command codes give the same clusters, label
\* coordinates and sizes.
C22_CommandIndependence ==
    (IsGTO /\ pc \in {"done", "matched"}) =>
        LET cs == ClustersOfXY(XY(drawing_elements), 1, {}, <<>>)
        IN  /\ clusters = cs
            /\ Len(text_objects) = Len(cs)
            /\ \A c \in 1..Len(cs) : \E k \in 1..Len(text_objects) :
                  Summary(text_objects[k], cs[c])
            /\ \A k \in 1..Len(text_objects) : \E c \in 1..Len(cs) :
                  Summary(text_objects[k], cs[c])

\* C22 witness: the three points of the example with the codes 03, 10 and
\* 02 gave the cluster and the label that they give with the codes 02, 01
\* and 01.
C22_Witness ==
    /\ IsGTO /\ pc = "done"
    /\ lines = <<L_MOMM, L_FS_22, L_E1_FLASH, L_E2_OTHER, L_E3_MOVE>>
    /\ [k \in 1..3 |-> drawing_elements[k].aperture]
           = <<<<"0", "3">>, <<"1", "0">>, <<"0", "2">>>>
    /\ clusters = <<<<1, 2, 3>>>>
    /\ Len(text_objects) = 1
    /\ text_objects[1].x = [n |-> 15 * (Scale \div 10), d |-> 1]
    /\ text_objects[1].y = [n |-> 11 * (Scale \div 10), d |-> 1]
    /\ text_objects[1].size = Scale

\* the object o after the first m lines of its file when it runs alone
RECURSIVE AloneAfter(_, _)
AloneAfter(o, m) ==
    IF m = 0 THEN [o EXCEPT !.pc = "lines"]
    ELSE line_step(<<AloneAfter(o, m - 1)>>, 1)

\* the object of class c on the file f when its parse, run alone, returns
Alone(c, f) == finish_step(AloneAfter(NewParser(c, f), Len(f)))

\* C23: two parser objects, of the same class or not, whose steps
\* interleave in any order: after every step each object has the unit, the
\* format and the point list it has after as many lines when it runs alone,
\* and when its parse has returned, the result also.
C23_Isolation ==
    \A p \in 1..2 :
        LET o == pair.objs[p]
        IN  /\ o.pc = "lines"
                  => o = AloneAfter(NewParser(o.cls, o.lines), o.line_num - 1)
            /\ o.pc = "done" => o = Alone(o.cls, o.lines)

\* C23 witness: a GerberParser and a GTO_Parser on two files have both
\* returned True, one in millimetres and one in inches, and a step of one
\* was taken while the other was inside its loop.
C23_Witness ==
    /\ pair.overlapped
    /\ pair.objs[1].cls # pair.objs[2].cls
    /\ pair.objs[1].lines # pair.objs[2].lines
    /\ \A p \in 1..2 : /\ pair.objs[p].pc = "done"
                       /\ pair.objs[p].result = <<TRUE>>
    /\ pair.objs[1].unit = "MM" /\ pair.objs[2].unit = "INCH"

\* none of the first m lines of the file has a unit marker or is a well-formed
\* format directive
NoDirective(m) ==
    \A k \in 1..m :
        LET line == Strip(lines[k])
        IN  /\ ~Contains(line, M_MOIN) /\ ~Contains(line, M_MOMM)
            /\ ~(StartsWith(line, M_FSLAX) /\ FormatMatch(line) # <<>>)

\* the (x, y) of the tokens of the first m lines, in inches with n decimals
\* for x and for y
RECURSIVE DefaultXY(_, _)
DefaultXY(m, n) ==
    IF m = 0 THEN <<>>
    ELSE DefaultXY(m - 1, n)
             \o LineXY(Strip(lines[m]), TokenStarts(Strip(lines[m])),
                       "INCH", n, n)

\* C24: while the file has had no unit and no format directive, the unit is
\* inch and the points are the tokens decoded in inches with 2 decimals for
\* x and y in GerberParser and with 5 decimals for x and y in GTO_Parser.
C24_DefaultDecode ==
    (pc \in {"lines", "done"} /\ readable /\ NoDirective(line_num - 1)) =>
        /\ unit = "INCH"
        /\ XY(Points) = DefaultXY(line_num - 1, IF IsGTO THEN 5 ELSE 2)

\* the distance of two points is CLUSTER_DISTANCE, neither less nor more
AtDistance(p, q) == SumSqCmp(Abs(p.x - q.x), Abs(p.y - q.y), CLUSTER_DISTANCE) = 0

\* C25: at every test of the inner loop the unassigned point j is added to
\* the open cluster exactly when the distance tested, from the seed i, is
\* below 5.0 mm; a point at 5.0 mm is not added.
C25_StrictThreshold ==
    [][AtTest
          => /\ j \in Members(cluster')
                  <=> Near(drawing_elements[i], drawing_elements[j])
             /\ AtDistance(drawing_elements[i], drawing_elements[j])
                  => cluster' = cluster]_vars

\* C25 witness: the cluster of the seed (0, 0) was closed with the point at
\* (3.00, 3.99) in it, and without the point at (3.00, 4.00), which the
\* scan tested before.
C25_Witness ==
    /\ IsGTO /\ lines = <<L_MOMM, L_FS_22, L_A, L_AT, L_BELOW, L_ABOVE>>
    /\ Len(formed) >= 1 /\ formed[1] = <<1, 3>>
    /\ AtDistance(drawing_elements[1], drawing_elements[2])
    /\ Near(drawing_elements[1], drawing_elements[3])
    /\ ~Near(drawing_elements[1], drawing_elements[4])

\* the label t without its text
Untexted(t) == [x |-> t.x, y |-> t.y, size |-> t.size,
                rotation |-> t.rotation, mirrored |-> t.mirrored]

\* C26: a call of match_with_csv leaves the number and the order of the
\* labels and the x, y, size, rotation and mirrored of every label as they
\* were, and the points, unit and format of the parser also; with no label
\* or no name it returns False and changes no label at all.
C26_MatchFrame ==
    [][(pc = "done" /\ pc' = "matched")
          => /\ Len(text_objects') = Len(text_objects)
             /\ \A k \in 1..Len(text_objects) :
                   Untexted(text_objects'[k]) = Untexted(text_objects[k])
             /\ (text_objects = <<>> \/ csv_designators' = <<>>)
                   => (match_result' = <<FALSE>> /\ text_objects' = text_objects)
             /\ UNCHANGED <<drawing_elements, unit, format_x, format_y,
                            result, clusters>>]_vars

\* C26 witness: a call with labels and names has returned True, the first
\* label has the name of the first entry and not its coordinates, and its
\* size is not zero.
C26_Witness ==
    /\ pc = "matched" /\ match_result = <<TRUE>>
    /\ text_objects # <<>> /\ csv_designators # <<>>
    /\ text_objects[1].text = <<csv_designators[1][1]>>
    /\ <<text_objects[1].x, text_objects[1].y>>
           # <<Frac(csv_designators[1][2] * Scale, 1),
               Frac(csv_designators[1][3] * Scale, 1)>>
    /\ text_objects[1].size > 0

\* the unit that the directive at the start of the line gives: "" if the
\* line does not begin with a unit marker
LeadingUnit(line) ==
    IF StartsWith(line, M_MOIN) THEN "INCH"
    ELSE IF StartsWith(line, M_MOMM) THEN "MM" ELSE ""

\* the format that the directive at the start of the line gives: <<>> if
\* the line does not begin with a well-formed format directive
LeadingFormat(line) ==
    IF StartsWith(line, M_FSLAX) THEN FormatMatch(line) ELSE <<>>

\* C27: in both parsers the step over a line that begins with a unit or a
\* format directive and has tokens appends every token of the line decoded
\* with the unit or the format of that directive, not with the one in force
\* before the line.
C27_DirectiveFirst ==
    [][(pc = "lines" /\ line_num <= Len(lines))
          => LET line == Strip(lines[line_num])
                 du == LeadingUnit(line)
                 df == LeadingFormat(line)
             IN  (TokenStarts(line) # {} /\ (du # "" \/ df # <<>>))
                     => XY(Points') = XY(Points) \o
                            LineXY(line, TokenStarts(line),
                                   IF du # "" THEN du ELSE unit',
                                   IF df # <<>> THEN df[1] ELSE format_x',
                                   IF df # <<>> THEN df[2] ELSE format_y')]_vars

\* C27 witness: parse has returned on a file whose first line sets
\* millimetres and has a token and whose second line sets the format 3, 4
\* and has a token: the two points are the same digits decoded in
\* millimetres, the first with the default format, the second with 3, 4.
C27_Witness ==
    /\ pc = "done" /\ lines = <<L_MM_TOK, L_FS_TOK>>
    /\ unit = "MM" /\ <<format_x, format_y>> = <<3, 4>>
    /\ Len(Points) = 2
    /\ Points[1].x = 12 * 10 ^ (MaxDecimals + 1 - (IF IsGTO THEN GTO_format_x
                                                  ELSE GKO_format_x))
    /\ Points[2].x = 12 * 10 ^ (MaxDecimals + 1 - 3)
    /\ Points[2].y = 340 * 10 ^ (MaxDecimals + 1 - 4)

\* the number of tokens in the lines of file
RECURSIVE TokenCount(_)
TokenCount(file) ==
    IF file = <<>> THEN 0
    ELSE TokenCount(SubSeq(file, 1, Len(file) - 1))
             + Cardinality(TokenStarts(Strip(file[Len(file)])))

\* what a parser of this class reads in the first m lines of file when it
\* enters the loop with the unit u0 and the format f0: the unit and the
\* format in force after them and the (x, y) of their tokens
RECURSIVE ReadingFrom(_, _, _, _)
ReadingFrom(file, m, u0, f0) ==
    IF m = 0 THEN [unit |-> u0, format |-> f0, xy |-> <<>>]
    ELSE LET prev == ReadingFrom(file, m - 1, u0, f0)
             line == Strip(file[m])
             u == IF LineUnit(line) # "" THEN LineUnit(line) ELSE prev.unit
             f == IF StartsWith(line, M_FSLAX) /\ FormatMatch(line) # <<>>
                  THEN FormatMatch(line)
                  ELSE prev.format
         IN  [unit |-> u, format |-> f,
              xy |-> prev.xy \o LineXY(line, TokenStarts(line), u, f[1], f[2])]

\* how many times e occurs in the list s
Occ(s, e) == Cardinality({k \in DOMAIN s : s[k] = e})

\* C28: when parse() has returned for the k-th time on one parser object
\* whose file has n tokens, the point list has k*n entries; from the second
\* call on, the list begins with the list the previous call left and goes
\* on with the file's tokens read once more (from the unit and the format
\* the previous call left), and for GTO_Parser every label of the previous
\* call is still in text_objects, which has one more label for every kept
\* cluster of the whole accumulated list.
C28_NoReset ==
    (pc = "done" /\ readable) =>
        LET k == Len(earlier) + 1
            n == TokenCount(lines)
        IN  /\ Len(Points) = k * n
            /\ k >= 2 =>
                 LET e == earlier[k - 1]
                     before == IF IsGTO THEN e.drawing_elements
                               ELSE e.coordinates
                     cs == ClustersOfXY(XY(drawing_elements), 1, {}, <<>>)
                 IN  /\ SubSeq(Points, 1, Len(before)) = before
                     /\ XY(SubSeq(Points, Len(before) + 1, Len(Points)))
                            = ReadingFrom(lines, Len(lines), e.unit,
                                          e.format).xy
                     /\ IsGTO =>
                          /\ \A m \in 1..Len(e.text_objects) :
                                Occ(text_objects, e.text_objects[m])
                                    >= Occ(e.text_objects, e.text_objects[m])
                          /\ Len(text_objects)
                                 = Len(e.text_objects) + Len(cs)
                          /\ \A c \in 1..Len(cs) :
                                \E m \in 1..Len(text_objects) :
                                   Summary(text_objects[m], cs[c])

\* C28 witness: the second parse() of a GTO_Parser on a file of one line
\* with three tokens has returned: six points, the label of the first call
\* and the label of the one cluster of the six points.
C28_Witness ==
    /\ IsGTO /\ pc = "done" /\ Len(earlier) = 1
    /\ lines = <<L_TOK3>>
    /\ Len(earlier[1].drawing_elements) = 3
    /\ Len(earlier[1].text_objects) = 1
    /\ Len(drawing_elements) = 6
    /\ clusters = <<<<1, 2, 3, 4, 5, 6>>>>
    /\ Len(text_objects) = 2
    /\ text_objects[1] = earlier[1].text_objects[1]

\* the designators of a designators.json that parses, in file order
FileNames(json) ==
    [k \in 1..Len(json[1].data.designators) |->
        json[1].data.designators[k].designator]

\* the texts of the labels of a list, in list order
LabelNames(objs) == [k \in 1..Len(objs) |-> objs[k].text]

\* the designators on the pages of the PDF, in drawing order
PdfNames == [k \in 1..Len(wf.pdf[1]) |-> wf.pdf[1][k][1]]

\* C29: after a call of create_searchable_pdf_from_json, a designators.json
\* that existed before the call is as it was; a designators.json that the
\* call wrote did not exist before and holds the labels of the argument;
\* and the designators of a PDF that the call saved are those of the file
\* (the first PLACEHOLDER_ITEMS of them when there is no image), so with
\* a file left by another run they are the file's and not the argument's.
C29_OverlayFromFile ==
    wf # <<>> /\ wf.pc = "called" =>
        LET arg == wf.gto_textobjects[1]
        IN  /\ wf.json_before # <<>> => wf.json = wf.json_before
            /\ wf.json # wf.json_before =>
                  /\ wf.json_before = <<>>
                  /\ wf.json[1].parses
                  /\ FileNames(wf.json) = LabelNames(arg)
                  /\ wf.json[1].data.text_count = Len(arg)
            /\ wf.pdf # <<>> =>
                  /\ wf.json # <<>> /\ wf.json[1].parses
                  /\ PdfNames =
                        IF wf.image = "missing"
                        THEN Take(FileNames(wf.json), PLACEHOLDER_ITEMS)
                        ELSE FileNames(wf.json)
                  /\ \A k \in 1..Len(wf.pdf[1]) :
                        LET item == wf.json[1].data.designators[k]
                        IN  wf.pdf[1][k] = <<item.designator, item.x_mm,
                                             item.y_mm>>

\* C29 witness: the function was called with one label while a
\* designators.json with another label existed, and it saved a PDF: the
\* file is as before and the PDF has the designator of the file, which is
\* not the text of the argument's label.
C29_Witness ==
    /\ wf # <<>> /\ wf.pc = "called"
    /\ Len(wf.gto_textobjects[1]) = 1
    /\ wf.json_before # <<>> /\ wf.json_before[1].parses
    /\ wf.json = wf.json_before
    /\ wf.success3 = <<TRUE>> /\ wf.pdf # <<>>
    /\ Len(PdfNames) = 1
    /\ PdfNames = FileNames(wf.json_before)
    /\ PdfNames # LabelNames(wf.gto_textobjects[1])

\* C30: in a run of main(), the step that calls
\* create_searchable_pdf_from_json is taken only with a non-empty list of
\* loaded labels and with a designators.json that holds exactly these
\* labels, whatever the file held when the run began; no other step of
\* main() saves the searchable PDF, and a PDF that the call saves has the
\* designators of the labels of this run; and the step that returns after
\* the three steps returns the result of the zoomed layout, whatever the
\* results of the render and of the searchable PDF.
C30_MainWorkflow ==
    [][/\ (wf.pc = "create" /\ wf'.pc # "create") =>
             /\ wf.gto_textobjects # <<>>
             /\ Len(wf.gto_textobjects[1]) > 0
             /\ wf.gto_textobjects = load_gto_textobjects(wf.gto)
             /\ wf.json # <<>> /\ wf.json[1].parses
             /\ FileNames(wf.json) = LabelNames(wf.gto_textobjects[1])
             /\ wf.json[1].data.text_count = Len(wf.gto_textobjects[1])
             /\ wf'.pdf # <<>> =>
                   [k \in 1..Len(wf'.pdf[1]) |-> wf'.pdf[1][k][1]]
                       = Take(LabelNames(wf.gto_textobjects[1]),
                              IF wf.image = "missing" THEN PLACEHOLDER_ITEMS
                              ELSE Len(wf.gto_textobjects[1]))
       /\ (wf.pc \notin {"start", "create"}) => wf'.pdf = wf.pdf
       /\ (wf.pc = "summary" /\ wf'.pc = "returned") =>
             wf'.ret = wf.success1]_vars

\* C30 witness: main() has returned True on a run with one label that
\* began with a designators.json of another run: the file and the PDF have
\* the designator of this run, the zoomed layout succeeded and the render
\* failed.
C30_Witness ==
    /\ wf # <<>> /\ wf.pc = "returned"
    /\ wf.gto_textobjects # <<>> /\ Len(wf.gto_textobjects[1]) = 1
    /\ wf.json_before # <<>> /\ wf.json_before[1].parses
    /\ FileNames(wf.json_before) # LabelNames(wf.gto_textobjects[1])
    /\ FileNames(wf.json) = LabelNames(wf.gto_textobjects[1])
    /\ wf.pdf # <<>> /\ PdfNames = LabelNames(wf.gto_textobjects[1])
    /\ wf.success1 = <<TRUE>> /\ wf.success2 = <<FALSE>>
    /\ wf.success3 = <<TRUE>> /\ wf.ret = <<TRUE>>

====
